---- MODULE Spec2Model ----
(***************************************************************************)
(* Tab Orchestra: the group relay (server.js) and the extension's service  *)
(* worker (tab event reconciler and cluster coordinator).                  *)
(*                                                                         *)
(* The relay is single-threaded: every handler runs to completion, so each *)
(* handler is one action.  Handlers are written as functions on a record   *)
(* T = [clients, order, groups, out] (the two registries, the insertion    *)
(* order of the clients Map, and the envelopes sent so far by the running  *)
(* handler), so that a handler that calls another one is their             *)
(* composition.                                                            *)
(***************************************************************************)
EXTENDS Integers, Sequences, FiniteSets, TLC

(***************************************************************************)
(* Input domains and bounds                                                *)
(***************************************************************************)
ClientIds == {"c1", "c2"}
GroupIds == {"g1", "g2"}
null == "null"

\* bounds of the relay specification
MaxTicks == 3
MaxShares == 2
MaxAnnotations == 1
\* bound of the history specification
MaxHistShares == 102
\* bounds of the worker specifications
MaxEvents == 2
MaxSnapshotLen == 2
MaxClusterEvents == 2
MaxE2EEvents == 3

\* server.js:204-205: the history keeps the last 100 records
HistoryCap == 100
\* server.js:303: liveness timeout, 5 minutes in ms
Timeout == 5 * 60 * 1000
\* server.js:315: an empty group is swept when older than 1 hour
GroupGrace == 60 * 60 * 1000
\* the clock advances in steps of half the liveness timeout
TickMs == Timeout \div 2

VARIABLES
    clients,      \* this.clients: clientId -> [groups, lastSeen]  (ws: see readyState)
    clientOrder,  \* insertion order of this.clients (Map iteration order)
    groups,       \* this.groups: groupId -> [id, members, sharedTabs, annotations, created]
    readyState,   \* ws.readyState of the socket of each connection id
    now,          \* Date.now() of the relay process
    sent,         \* envelopes the last handler sent, per receiving connection
    errors,       \* console.error lines of the last handler of the relay
    \* the extension's service worker (part_001:373-1395)
    store,          \* chrome.storage.local: [sharedTabs, annotations, aiClusters]
    tasks,          \* storage callbacks and continuations not run yet, in order
    inflight,       \* categorize-tabs requests the offscreen document is working on
    late,           \* tabs-categorized messages of the offscreen document, under way
    notices,        \* chrome.runtime.sendMessage of the last step of the worker
    console,        \* console lines of the last step of the worker
    currentGroupId, \* part_001:377
    wsState,        \* wsConnection.readyState ("CLOSED" also while it is null)
    lastConnectionAttempt,        \* part_001:405
    connectionAttemptInProgress,  \* part_001:404
    timers,         \* setTimeout callbacks of the worker not run yet, in order
    orphans,        \* sockets the worker has replaced whose close event is due
    created,        \* ghost: the number of sockets the worker has created
    wsIn,           \* envelopes on their way from the relay to the worker
    wsOut,          \* envelopes on their way from the worker to the relay
    published,      \* ghost: where store.aiClusters comes from
    reqSeq,         \* ghost: the number of categorize-tabs requests sent
    nEvents,        \* ghost: the number of events handled by the worker
    ran             \* ghost: the storage callback the last step ran, if any

serverVars == <<clients, clientOrder, groups, readyState, sent, errors>>
workerVars == <<store, tasks, inflight, late, notices, console, currentGroupId,
                wsState, lastConnectionAttempt, connectionAttemptInProgress, timers,
                orphans, created, wsIn, wsOut, published, reqSeq, nEvents, ran>>
connVars == <<lastConnectionAttempt, connectionAttemptInProgress, timers, orphans, created>>
vars == <<clients, clientOrder, groups, readyState, now, sent, errors, store, tasks, inflight,
          late, notices, console, currentGroupId, wsState, lastConnectionAttempt,
          connectionAttemptInProgress, timers, orphans, created, wsIn, wsOut, published,
          reqSeq, nEvents, ran>>

(***************************************************************************)
(* JavaScript Set with insertion order, as a sequence without duplicates   *)
(***************************************************************************)
SeqToSet(s) == {s[i] : i \in 1..Len(s)}
\* mutant of SetAdd: an array push
SetAdd_push(s, x) ==
    Append(s, x)

SetAdd(s, x) ==
    IF x \in SeqToSet(s) THEN s ELSE Append(s, x)

SetDelete(s, x) == SelectSeq(s, LAMBDA y : y # x)

NoOut == [c \in ClientIds |-> <<>>]
Cur ==
    [clients |-> clients, order |-> clientOrder, groups |-> groups, out |-> NoOut,
     err |-> <<>>]

\* ws.send on a socket: delivered only while the socket is OPEN
wsSend(T, c, msg) ==
    IF readyState[c] = "OPEN" THEN [T EXCEPT !.out[c] = Append(@, msg)] ELSE T

\* mutant of broadcastToGroup: a member whose socket is not open ends the
\* broadcast for everybody
broadcastToGroup_abort(T, groupId, message, excludeClientId) ==
    IF groupId \notin DOMAIN T.groups THEN T
    ELSE IF \E x \in T.groups[groupId].members : readyState[x] # "OPEN" THEN T
    ELSE [T EXCEPT !.out = [m \in ClientIds |->
             IF /\ m \in T.groups[groupId].members
                /\ (excludeClientId = null \/ m # excludeClientId)
                /\ m \in DOMAIN T.clients
             THEN Append(T.out[m], message)
             ELSE T.out[m]]]

\* mutant of broadcastToGroup: the envelope goes to every registered
\* connection, member of the group or not
broadcastToGroup_everyone(T, groupId, message, excludeClientId) ==
    IF groupId \notin DOMAIN T.groups THEN T
    ELSE [T EXCEPT !.out = [m \in ClientIds |->
             IF /\ (excludeClientId = null \/ m # excludeClientId)
                /\ m \in DOMAIN T.clients
                /\ readyState[m] = "OPEN"
             THEN Append(T.out[m], message)
             ELSE T.out[m]]]

\* mutant of broadcastToGroup: nobody is left out
broadcastToGroup_all(T, groupId, message, excludeClientId) ==
    IF groupId \notin DOMAIN T.groups THEN T
    ELSE [T EXCEPT !.out = [m \in ClientIds |->
             IF /\ m \in T.groups[groupId].members
                /\ m \in DOMAIN T.clients
                /\ readyState[m] = "OPEN"
             THEN Append(T.out[m], message)
             ELSE T.out[m]]]

\* server.js:263-285
broadcastToGroup(T, groupId, message, excludeClientId) ==
    IF groupId \notin DOMAIN T.groups THEN T
    ELSE [T EXCEPT !.out = [m \in ClientIds |->
             IF /\ m \in T.groups[groupId].members
                /\ (excludeClientId = null \/ m # excludeClientId)
                /\ m \in DOMAIN T.clients
                /\ readyState[m] = "OPEN"
             THEN Append(T.out[m], message)
             ELSE T.out[m]]]

\* server.js:119-125
newGroup(groupId, t) ==
    [id |-> groupId, members |-> {}, sharedTabs |-> <<>>, annotations |-> <<>>,
     created |-> t, pushed |-> 0]

groupDataEnvelope(group) ==
    [type |-> "group_data",
     data |-> [sharedTabs |-> group.sharedTabs, annotations |-> group.annotations]]

\* mutant of handleJoinGroup: the joiner is first taken out of the groups it
\* was in
handleJoinGroup_switch(T, clientId, groupId, t) ==
    IF clientId \notin DOMAIN T.clients THEN T
    ELSE
      LET kept == {h \in DOMAIN T.groups :
                      h = groupId \/ T.groups[h].members # {clientId}}
          T0 == [T EXCEPT !.clients[clientId].groups = <<>>,
                          !.groups = [h \in kept |->
                              IF h = groupId THEN T.groups[h]
                              ELSE [T.groups[h] EXCEPT !.members = @ \ {clientId}]]]
          T1 == IF groupId \in DOMAIN T0.groups THEN T0
                ELSE [T0 EXCEPT !.groups = @ @@ (groupId :> newGroup(groupId, t))]
          T2 == [T1 EXCEPT !.groups[groupId].members = @ \cup {clientId},
                           !.clients[clientId].groups = SetAdd(@, groupId)]
          n  == Cardinality(T2.groups[groupId].members)
          T3 == wsSend(T2, clientId,
                       [type |-> "group_joined", groupId |-> groupId, memberCount |-> n])
          T4 == wsSend(T3, clientId, groupDataEnvelope(T3.groups[groupId]))
      IN broadcastToGroup(T4, groupId,
             [type |-> "member_joined", clientId |-> clientId, memberCount |-> n],
             clientId)

\* mutant of handleJoinGroup: the members are counted before the add
handleJoinGroup_countBefore(T, clientId, groupId, t) ==
    IF clientId \notin DOMAIN T.clients THEN T
    ELSE
      LET T1 == IF groupId \in DOMAIN T.groups THEN T
                ELSE [T EXCEPT !.groups = @ @@ (groupId :> newGroup(groupId, t))]
          T2 == [T1 EXCEPT !.groups[groupId].members = @ \cup {clientId},
                           !.clients[clientId].groups = SetAdd(@, groupId)]
          n  == Cardinality(T1.groups[groupId].members)
          T3 == wsSend(T2, clientId,
                       [type |-> "group_joined", groupId |-> groupId, memberCount |-> n])
          T4 == wsSend(T3, clientId, groupDataEnvelope(T3.groups[groupId]))
      IN broadcastToGroup(T4, groupId,
             [type |-> "member_joined", clientId |-> clientId, memberCount |-> n],
             clientId)

\* mutant of handleJoinGroup: the snapshot is sent before group_joined
handleJoinGroup_dataFirst(T, clientId, groupId, t) ==
    IF clientId \notin DOMAIN T.clients THEN T
    ELSE
      LET T1 == IF groupId \in DOMAIN T.groups THEN T
                ELSE [T EXCEPT !.groups = @ @@ (groupId :> newGroup(groupId, t))]
          T2 == [T1 EXCEPT !.groups[groupId].members = @ \cup {clientId},
                           !.clients[clientId].groups = SetAdd(@, groupId)]
          n  == Cardinality(T2.groups[groupId].members)
          T3 == wsSend(T2, clientId, groupDataEnvelope(T2.groups[groupId]))
          T4 == wsSend(T3, clientId,
                       [type |-> "group_joined", groupId |-> groupId, memberCount |-> n])
      IN broadcastToGroup(T4, groupId,
             [type |-> "member_joined", clientId |-> clientId, memberCount |-> n],
             clientId)

\* server.js:113-160
handleJoinGroup(T, clientId, groupId, t) ==
    IF clientId \notin DOMAIN T.clients THEN T
    ELSE
      LET T1 == IF groupId \in DOMAIN T.groups THEN T
                ELSE [T EXCEPT !.groups = @ @@ (groupId :> newGroup(groupId, t))]
          T2 == [T1 EXCEPT !.groups[groupId].members = @ \cup {clientId},
                           !.clients[clientId].groups = SetAdd(@, groupId)]
          n  == Cardinality(T2.groups[groupId].members)
          T3 == wsSend(T2, clientId,
                       [type |-> "group_joined", groupId |-> groupId, memberCount |-> n])
          T4 == wsSend(T3, clientId, groupDataEnvelope(T3.groups[groupId]))
      IN broadcastToGroup(T4, groupId,
             [type |-> "member_joined", clientId |-> clientId, memberCount |-> n],
             clientId)

\* mutant of removeIfEmpty: the empty group is left to the cleanup timer
removeIfEmpty_keep(T, groupId) ==
    T

\* server.js:177-181: the group is removed as soon as it has no member
removeIfEmpty(T, groupId) ==
    IF T.groups[groupId].members = {}
    THEN [T EXCEPT !.groups = [g \in DOMAIN T.groups \ {groupId} |-> T.groups[g]]]
    ELSE T

\* mutant of handleLeaveGroup: a leave of a group that does not exist is
\* answered
handleLeaveGroup_answered(T, clientId, groupId) ==
    IF clientId \in DOMAIN T.clients /\ groupId \in DOMAIN T.groups
    THEN
      LET T1 == [T EXCEPT !.groups[groupId].members = @ \ {clientId},
                          !.clients[clientId].groups = SetDelete(@, groupId)]
          T2 == broadcastToGroup(T1, groupId,
                    [type |-> "member_left", clientId |-> clientId,
                     memberCount |-> Cardinality(T1.groups[groupId].members)],
                    clientId)
      IN removeIfEmpty(T2, groupId)
    ELSE wsSend(T, clientId, [type |-> "member_left", clientId |-> clientId,
                              memberCount |-> 0])

\* mutant of handleLeaveGroup: the member count is read before the delete
handleLeaveGroup_staleCount(T, clientId, groupId) ==
    IF clientId \in DOMAIN T.clients /\ groupId \in DOMAIN T.groups
    THEN
      LET T1 == [T EXCEPT !.groups[groupId].members = @ \ {clientId},
                          !.clients[clientId].groups = SetDelete(@, groupId)]
          T2 == broadcastToGroup(T1, groupId,
                    [type |-> "member_left", clientId |-> clientId,
                     memberCount |-> Cardinality(T.groups[groupId].members)],
                    clientId)
      IN removeIfEmpty(T2, groupId)
    ELSE T

\* server.js:162-183
handleLeaveGroup(T, clientId, groupId) ==
    IF clientId \in DOMAIN T.clients /\ groupId \in DOMAIN T.groups
    THEN
      LET T1 == [T EXCEPT !.groups[groupId].members = @ \ {clientId},
                          !.clients[clientId].groups = SetDelete(@, groupId)]
          T2 == broadcastToGroup(T1, groupId,
                    [type |-> "member_left", clientId |-> clientId,
                     memberCount |-> Cardinality(T1.groups[groupId].members)],
                    clientId)
      IN removeIfEmpty(T2, groupId)
    ELSE T

\* mutant of keepRecent: slice(0, 100), which keeps the oldest records
keepRecent_oldest(tabs) ==
    IF Len(tabs) > HistoryCap THEN SubSeq(tabs, 1, HistoryCap) ELSE tabs

\* server.js:203-206: group.sharedTabs.slice(-100) when longer than 100
keepRecent(tabs) ==
    IF Len(tabs) > HistoryCap
    THEN SubSeq(tabs, Len(tabs) - HistoryCap + 1, Len(tabs))
    ELSE tabs

\* mutant of shareToGroup: the snapshot is broadcast before the event
shareToGroup_snapshotFirst(T, clientId, groupId, tabData, t) ==
    IF groupId \notin DOMAIN T.groups THEN T
    ELSE
      LET completeTabData ==
              [url |-> tabData.url, groupId |-> tabData.groupId,
               sharedBy |-> clientId, timestamp |-> t,
               arrival |-> T.groups[groupId].pushed]
          T1 == [T EXCEPT !.groups[groupId].sharedTabs =
                              keepRecent(Append(@, completeTabData)),
                          !.groups[groupId].pushed = @ + 1]
          T2 == broadcastToGroup(T1, groupId, groupDataEnvelope(T1.groups[groupId]), null)
      IN broadcastToGroup(T2, groupId,
             [type |-> "tab_shared", data |-> completeTabData], null)

\* mutant of shareToGroup: the sender is left out of both broadcasts
shareToGroup_excludeSender(T, clientId, groupId, tabData, t) ==
    IF groupId \notin DOMAIN T.groups THEN T
    ELSE
      LET completeTabData ==
              [url |-> tabData.url, groupId |-> tabData.groupId,
               sharedBy |-> clientId, timestamp |-> t,
               arrival |-> T.groups[groupId].pushed]
          T1 == [T EXCEPT !.groups[groupId].sharedTabs =
                              keepRecent(Append(@, completeTabData)),
                          !.groups[groupId].pushed = @ + 1]
          T2 == broadcastToGroup(T1, groupId,
                    [type |-> "tab_shared", data |-> completeTabData], clientId)
      IN broadcastToGroup(T2, groupId, groupDataEnvelope(T2.groups[groupId]), clientId)

\* server.js:191-224: the body of the forEach, for one group of the sender.
\* The field arrival is a ghost: the number of records pushed to the group
\* before this one (pushed counts them); no handler reads either.
shareToGroup(T, clientId, groupId, tabData, t) ==
    IF groupId \notin DOMAIN T.groups THEN T
    ELSE
      LET completeTabData ==
              [url |-> tabData.url, groupId |-> tabData.groupId,
               sharedBy |-> clientId, timestamp |-> t,
               arrival |-> T.groups[groupId].pushed]
          T1 == [T EXCEPT !.groups[groupId].sharedTabs =
                              keepRecent(Append(@, completeTabData)),
                          !.groups[groupId].pushed = @ + 1]
          T2 == broadcastToGroup(T1, groupId,
                    [type |-> "tab_shared", data |-> completeTabData], null)
      IN broadcastToGroup(T2, groupId, groupDataEnvelope(T2.groups[groupId]), null)

RECURSIVE shareToGroups(_, _, _, _, _)
shareToGroups(T, clientId, gs, tabData, t) ==
    IF gs = <<>> THEN T
    ELSE shareToGroups(shareToGroup(T, clientId, Head(gs), tabData, t),
                       clientId, Tail(gs), tabData, t)

\* server.js:185-226
handleShareTab(T, clientId, tabData, t) ==
    IF clientId \notin DOMAIN T.clients THEN T
    ELSE shareToGroups(T, clientId, T.clients[clientId].groups, tabData, t)

\* server.js:233-246: the body of the forEach, for one group of the sender
annotateGroup(T, clientId, groupId, annotationData, t) ==
    IF groupId \notin DOMAIN T.groups THEN T
    ELSE
      LET T1 == [T EXCEPT !.groups[groupId].annotations =
                     Append(@, [data |-> annotationData, createdBy |-> clientId,
                                timestamp |-> t])]
      IN broadcastToGroup(T1, groupId,
             [type |-> "annotation_update", data |-> annotationData,
              createdBy |-> clientId], clientId)

RECURSIVE annotateGroups(_, _, _, _, _)
annotateGroups(T, clientId, gs, annotationData, t) ==
    IF gs = <<>> THEN T
    ELSE annotateGroups(annotateGroup(T, clientId, Head(gs), annotationData, t),
                        clientId, Tail(gs), annotationData, t)

\* server.js:228-248
handleAnnotation(T, clientId, annotationData, t) ==
    IF clientId \notin DOMAIN T.clients THEN T
    ELSE annotateGroups(T, clientId, T.clients[clientId].groups, annotationData, t)

RECURSIVE relayClusters(_, _, _, _)
relayClusters(T, clientId, gs, clusterData) ==
    IF gs = <<>> THEN T
    ELSE relayClusters(
             broadcastToGroup(T, Head(gs),
                 [type |-> "ai_cluster_update", data |-> clusterData,
                  updatedBy |-> clientId], clientId),
             clientId, Tail(gs), clusterData)

\* mutant of handleClusterUpdate: the clusters are kept in the annotation log
handleClusterUpdate_persist(T, clientId, clusterData) ==
    relayClusters(handleAnnotation(T, clientId, clusterData, 0), clientId,
                  IF clientId \in DOMAIN T.clients THEN T.clients[clientId].groups
                  ELSE <<>>, clusterData)

\* server.js:250-261
handleClusterUpdate(T, clientId, clusterData) ==
    IF clientId \notin DOMAIN T.clients THEN T
    ELSE relayClusters(T, clientId, T.clients[clientId].groups, clusterData)

\* mutant of handleHeartbeat: the liveness is refreshed, no pong is sent
handleHeartbeat_silent(T, clientId, t) ==
    IF clientId \in DOMAIN T.clients /\ readyState[clientId] = "OPEN"
    THEN [T EXCEPT !.clients[clientId].lastSeen = t]
    ELSE T

\* server.js:101-111
handleHeartbeat(T, clientId, t) ==
    IF clientId \in DOMAIN T.clients /\ readyState[clientId] = "OPEN"
    THEN [wsSend(T, clientId, [type |-> "pong"]) EXCEPT !.clients[clientId].lastSeen = t]
    ELSE T

RECURSIVE leaveGroups(_, _, _)
leaveGroups(T, clientId, gs) ==
    IF gs = <<>> THEN T
    ELSE leaveGroups(handleLeaveGroup(T, clientId, Head(gs)), clientId, Tail(gs))

\* mutant of handleClientDisconnect: the groups are left, the record is kept
handleClientDisconnect_keepRecord(T, clientId) ==
    IF clientId \notin DOMAIN T.clients THEN T
    ELSE leaveGroups(T, clientId, T.clients[clientId].groups)

\* mutant of handleClientDisconnect: the record is purged, the groups are not left
handleClientDisconnect_noLeave(T, clientId) ==
    IF clientId \notin DOMAIN T.clients THEN T
    ELSE [T EXCEPT !.clients = [c \in DOMAIN T.clients \ {clientId} |-> T.clients[c]],
                   !.order = SetDelete(@, clientId)]

\* server.js:287-298
handleClientDisconnect(T, clientId) ==
    IF clientId \notin DOMAIN T.clients THEN T
    ELSE
      LET T1 == leaveGroups(T, clientId, T.clients[clientId].groups)
      IN [T1 EXCEPT !.clients = [c \in DOMAIN T1.clients \ {clientId} |-> T1.clients[c]],
                    !.order = SetDelete(@, clientId)]

\* server.js:73-99
handleMessage(T, clientId, message, t) ==
    IF clientId \notin DOMAIN T.clients THEN T
    ELSE
      LET T1 == [T EXCEPT !.clients[clientId].lastSeen = t]
      IN CASE message.type = "heartbeat" -> handleHeartbeat(T1, clientId, t)
           [] message.type = "join_group" -> handleJoinGroup(T1, clientId, message.groupId, t)
           [] message.type = "leave_group" -> handleLeaveGroup(T1, clientId, message.groupId)
           [] message.type = "share_tab" -> handleShareTab(T1, clientId, message.data, t)
           [] message.type = "annotation_created" ->
                  handleAnnotation(T1, clientId, message.data, t)
           [] message.type = "ai_cluster_update" ->
                  handleClusterUpdate(T1, clientId, message.data)
           [] OTHER -> T1

\* server.js:306-311: forEach over this.clients in insertion order
RECURSIVE evictInactive(_, _, _)
evictInactive(T, cs, t) ==
    IF cs = <<>> THEN T
    ELSE LET c == Head(cs)
             T1 == IF c \in DOMAIN T.clients /\ t - T.clients[c].lastSeen > Timeout
                   THEN handleClientDisconnect(T, c)
                   ELSE T
         IN evictInactive(T1, Tail(cs), t)

\* server.js:313-319
sweepGroups(T, t) ==
    [T EXCEPT !.groups =
        [g \in {h \in DOMAIN T.groups :
                   ~(T.groups[h].members = {} /\ t - T.groups[h].created > GroupGrace)}
           |-> T.groups[g]]]

\* mutant of cleanup: a connection is taken for inactive as soon as its
\* last message lies in the past
cleanup_impatient(T, t) ==
    sweepGroups(evictInactive(T, T.order, t + Timeout), t)

\* server.js:300-324: one run of the cleanup timer
cleanup(T, t) ==
    sweepGroups(evictInactive(T, T.order, t), t)

Apply(T) ==
    /\ clients' = T.clients
    /\ clientOrder' = T.order
    /\ groups' = T.groups
    /\ sent' = T.out
    /\ errors' = T.err

(***************************************************************************)
(* Actions of the relay                                                    *)
(***************************************************************************)
\* server.js:19-58: a new connection is registered and welcomed
OnConnection(c) ==
    /\ readyState[c] = "CLOSED"
    /\ c \notin DOMAIN clients
    /\ readyState' = [readyState EXCEPT ![c] = "OPEN"]
    /\ clients' = clients @@ (c :> [groups |-> <<>>, lastSeen |-> now])
    /\ clientOrder' = Append(clientOrder, c)
    /\ sent' = [NoOut EXCEPT ![c] = <<[type |-> "welcome", clientId |-> c]>>]
    /\ errors' = <<>>
    /\ UNCHANGED <<groups, now>>

\* server.js:29-37: a well-formed envelope arrives on an open socket
OnMessage(c, message) ==
    /\ readyState[c] = "OPEN"
    /\ Apply(handleMessage(Cur, c, message, now))
    /\ UNCHANGED <<readyState, now>>

\* frames that are not envelopes of the protocol, and JSON.parse of them
\* (server.js:31): a text that does not parse, null, a number, and an object
\* with a type handleMessage has no case for
Frames == {"{oops", "null", "42", "{\"type\":\"nope\"}"}
JSONparse(data) ==
    CASE data = "null" -> [ok |-> TRUE, isNull |-> TRUE, type |-> "undefined"]
      [] data = "42" -> [ok |-> TRUE, isNull |-> FALSE, type |-> "undefined"]
      [] data = "{\"type\":\"nope\"}" -> [ok |-> TRUE, isNull |-> FALSE, type |-> "nope"]
      [] OTHER -> [ok |-> FALSE, isNull |-> FALSE, type |-> "undefined"]

\* mutant of onData: a frame that is not an envelope ends the connection's
\* registration
onData_drop(T, clientId, data, t) ==
    handleClientDisconnect(T, clientId)

\* server.js:29-37 on such a frame: what JSON.parse throws, and the TypeError
\* of message.type on null (server.js:79, after lastSeen is set), are caught
\* and logged
onData(T, clientId, data, t) ==
    LET p == JSONparse(data)
        invalid == [T EXCEPT !.err = Append(@, "Invalid message format")]
    IN IF ~p.ok THEN invalid
       ELSE IF p.isNull
            THEN IF clientId \notin DOMAIN T.clients THEN T
                 ELSE [invalid EXCEPT !.clients[clientId].lastSeen = t]
            ELSE handleMessage(T, clientId, [type |-> p.type], t)

OnData(c, data) ==
    /\ readyState[c] = "OPEN"
    /\ Apply(onData(Cur, c, data, now))
    /\ UNCHANGED <<readyState, now>>

\* the socket of c stops being OPEN; its close event has not been emitted yet
SocketClosing(c) ==
    /\ readyState[c] = "OPEN"
    /\ readyState' = [readyState EXCEPT ![c] = "CLOSING"]
    /\ sent' = NoOut
    /\ errors' = <<>>
    /\ UNCHANGED <<clients, clientOrder, groups, now>>

\* server.js:39-42: the close event of the socket of c
OnClose(c) ==
    /\ readyState[c] \in {"OPEN", "CLOSING"}
    /\ readyState' = [readyState EXCEPT ![c] = "CLOSED"]
    /\ Apply(handleClientDisconnect(
                 [Cur EXCEPT !.out = NoOut], c))
    /\ UNCHANGED now

\* server.js:300-324: the cleanup timer fires
OnCleanupTimer ==
    /\ Apply(cleanup(Cur, now))
    /\ UNCHANGED <<readyState, now>>

\* Date.now() advances
Advance ==
    /\ now < MaxTicks * TickMs
    /\ now' = now + TickMs

\* the number of records pushed to the groups that exist (ghost)
RECURSIVE sumPushed(_)
sumPushed(S) ==
    IF S = {} THEN 0
    ELSE LET g == CHOOSE x \in S : TRUE
         IN groups[g].pushed + sumPushed(S \ {g})
TotalPushed == sumPushed(DOMAIN groups)

RECURSIVE sumAnnotations(_)
sumAnnotations(S) ==
    IF S = {} THEN 0
    ELSE LET g == CHOOSE x \in S : TRUE
         IN Len(groups[g].annotations) + sumAnnotations(S \ {g})
TotalAnnotations == sumAnnotations(DOMAIN groups)

\* share_tab payloads: the client's record (part_001:961-968)
Payloads == [url : {"u1"}, groupId : GroupIds, timestamp : {0}]

(***************************************************************************)
(* The service worker.  chrome.storage.local serves its calls in the order *)
(* they are made: a get reads, and a set writes, when it is issued, and    *)
(* the callbacks run later, in that order (tasks).  A handler is a         *)
(* function on the record W of the worker's state; notices and console     *)
(* hold what the running step emits.                                       *)
(***************************************************************************)
\* part_001:683,713: the echo window, in ms
EchoWindow == 1000

\* the URLs of the model and new URL(url).hostname; "nourl" does not parse
Urls == {"https://a.com/1", "https://a.com/2", "https://b.org/1", "nourl",
         "http://constructor/"}
hostname(url) ==
    CASE url = "https://a.com/1" -> "a.com"
      [] url = "https://a.com/2" -> "a.com"
      [] url = "https://b.org/1" -> "b.org"
      [] url = "http://constructor/" -> "constructor"
      [] OTHER -> "throws"
\* part_001:1095: domainGroups is an object literal, and a key it inherits
\* reads as a value that is neither falsy nor an array
Inherited == {"constructor"}

Abs(x) == IF x < 0 THEN -x ELSE x

NoTask == [k |-> "none"]

CurW ==
    [store |-> store, tasks |-> tasks, inflight |-> inflight, late |-> late,
     notices |-> <<>>, console |-> <<>>, currentGroupId |-> currentGroupId,
     wsOut |-> wsOut, published |-> published, reqSeq |-> reqSeq,
     ran |-> NoTask, wsState |-> wsState,
     lastConnectionAttempt |-> lastConnectionAttempt,
     connectionAttemptInProgress |-> connectionAttemptInProgress,
     timers |-> timers, orphans |-> orphans, created |-> created]

ApplyW(W) ==
    /\ store' = W.store
    /\ tasks' = W.tasks
    /\ inflight' = W.inflight
    /\ late' = W.late
    /\ notices' = W.notices
    /\ console' = W.console
    /\ currentGroupId' = W.currentGroupId
    /\ wsOut' = W.wsOut
    /\ published' = W.published
    /\ reqSeq' = W.reqSeq
    /\ ran' = W.ran
    /\ wsState' = W.wsState
    /\ lastConnectionAttempt' = W.lastConnectionAttempt
    /\ connectionAttemptInProgress' = W.connectionAttemptInProgress
    /\ timers' = W.timers
    /\ orphans' = W.orphans
    /\ created' = W.created

enqueue(W, task) == [W EXCEPT !.tasks = Append(@, task)]
notice(W, n) == [W EXCEPT !.notices = Append(@, n)]
logLine(W, line) == [W EXCEPT !.console = Append(@, line)]

\* part_001:1094-1128: one cluster per key of domainGroups, in insertion order
RECURSIVE groupByDomain(_, _)
groupByDomain(tabs, acc) ==
    IF tabs = <<>> THEN acc
    ELSE
      LET tab == Head(tabs)
          \* the catch of part_001:1111-1120 takes what new URL throws and
          \* the TypeError of push on an inherited key
          domain == IF hostname(tab.url) = "throws" \/ hostname(tab.url) \in Inherited
                    THEN "Other"
                    ELSE hostname(tab.url)
      IN IF \E i \in 1..Len(acc) : acc[i].name = domain
         THEN groupByDomain(Tail(tabs),
                  [i \in 1..Len(acc) |->
                      IF acc[i].name = domain
                      THEN [acc[i] EXCEPT !.tabs = Append(@, tab)]
                      ELSE acc[i]])
         ELSE groupByDomain(Tail(tabs),
                  Append(acc, [name |-> domain, tabs |-> <<tab>>,
                               theme |-> <<"Content from", domain>>]))

simpleGroupByDomain(tabs) == groupByDomain(tabs, <<>>)

\* part_001:1006-1010: updateAIClusters runs up to its first await, the get
updateAIClusters(W) ==
    enqueue(W, [k |-> "uac_get", sharedTabs |-> W.store.sharedTabs])

\* part_001:626-647, 727-746, 1071-1088: aiClusters is written, then announced
storeClusters(W, clusters, src, req, of) ==
    enqueue([W EXCEPT !.store.aiClusters = clusters,
                      !.published = [src |-> src, req |-> req, tabs |-> of]],
            [k |-> "notify", data |-> clusters])

\* part_001:777-800 with the callers' set of aiClusters (623-626, 724-727)
computeClusters(W, sharedTabs) ==
    IF sharedTabs = <<>>
    THEN storeClusters(W, <<>>, "fallback", 0, sharedTabs)
    ELSE storeClusters(updateAIClusters(W), simpleGroupByDomain(sharedTabs),
                       "fallback", 0, sharedTabs)

\* part_001:616-621; the field snapshot of the task is a ghost: the set
\* writes a snapshot of the relay
handleGroupData(W, groupData) ==
    enqueue([W EXCEPT !.store.sharedTabs = groupData.sharedTabs,
                      !.store.annotations = groupData.annotations],
            [k |-> "tabs_set", sharedTabs |-> groupData.sharedTabs,
             snapshot |-> TRUE])

\* part_001:675-677: the get of handleSharedTab
handleSharedTab(W, tabData) ==
    enqueue(W, [k |-> "hst_get", tabData |-> tabData,
                sharedTabs |-> W.store.sharedTabs])

\* the difference is taken without Math.abs
isDuplicate_later(tab, tabData) ==
    /\ tab.url = tabData.url
    /\ tab.groupId = tabData.groupId
    /\ tabData.timestamp - tab.timestamp > EchoWindow

\* part_001:680-684
isDuplicate(tab, tabData) ==
    /\ tab.url = tabData.url
    /\ tab.groupId = tabData.groupId
    /\ Abs(tab.timestamp - tabData.timestamp) > EchoWindow

\* the window is open at 1000 ms
isEchoOf_open(tab, tabData) ==
    /\ tab.url = tabData.url
    /\ Abs(tab.timestamp - tabData.timestamp) < EchoWindow

\* part_001:711-714
isEchoOf(tab, tabData) ==
    /\ tab.url = tabData.url
    /\ Abs(tab.timestamp - tabData.timestamp) <= EchoWindow

\* part_001:677-723: the callback of the get of handleSharedTab
sharedTabRead(W, tabData, sharedTabs) ==
    IF \E i \in 1..Len(sharedTabs) : isDuplicate(sharedTabs[i], tabData)
    THEN
      LET first == CHOOSE i \in 1..Len(sharedTabs) :
                      /\ isDuplicate(sharedTabs[i], tabData)
                      /\ \A j \in 1..(i - 1) : ~isDuplicate(sharedTabs[j], tabData)
      IN notice(logLine(W, "Duplicate tab detected"),
                [type |-> "duplicate_tab_warning", url |-> tabData.url,
                 originalTimestamp |-> sharedTabs[first].timestamp])
    ELSE IF \E i \in 1..Len(sharedTabs) : isEchoOf(sharedTabs[i], tabData)
    THEN logLine(W, "Ignoring echo from server")
    ELSE
      LET added == Append(sharedTabs, tabData)
      IN enqueue([W EXCEPT !.store.sharedTabs = added],
                 [k |-> "tabs_set", sharedTabs |-> added, snapshot |-> FALSE])

\* part_001:953-973: shareTab up to its get
shareTab(W, url, t) ==
    IF W.currentGroupId = null
    THEN logLine(W, "No group to share to")
    ELSE enqueue(W, [k |-> "share_get",
                     sharedTab |-> [url |-> url, timestamp |-> t,
                                    groupId |-> W.currentGroupId],
                     sharedTabs |-> W.store.sharedTabs])

\* part_001:973-975: the record is pushed and the list is written
shareTabRead(W, sharedTab, sharedTabs) ==
    enqueue([W EXCEPT !.store.sharedTabs = Append(sharedTabs, sharedTab)],
            [k |-> "share_set", sharedTab |-> sharedTab])

\* part_001:976-1002: the share is sent to the relay and shown
shareTabSend(W, sharedTab) ==
    LET W1 == IF W.wsState = "OPEN"
              THEN [W EXCEPT !.wsOut =
                       Append(@, [type |-> "share_tab", data |-> sharedTab])]
              ELSE logLine(W, "Cannot send to server")
    IN notice(W1, [type |-> "tab_shared", data |-> sharedTab])

\* part_001:1060-1071: the catch of updateAIClusters, up to its get
aiFailed(W) ==
    enqueue(logLine(W, "AI clustering failed"),
            [k |-> "fail_get", sharedTabs |-> W.store.sharedTabs])

\* part_001:1010-1045: the tabs read are sent to the offscreen document, or
\* the offscreen document cannot be created
aiRequest(W, sharedTabs, offscreenCreated) ==
    IF Len(sharedTabs) < 1 THEN logLine(W, "No tabs to cluster")
    ELSE IF ~offscreenCreated THEN aiFailed(W)
    ELSE [W EXCEPT !.inflight = @ \cup {[req |-> W.reqSeq + 1, tabs |-> sharedTabs]},
                   !.reqSeq = @ + 1]

\* part_001:1193-1220; req and of are ghosts (the request answered)
handleTabsCategorized(W, data, req, of) ==
    IF data.error # null THEN logLine(W, "Tab categorization error")
    ELSE storeClusters(W, data.clusters, "ai", req, of)

\* part_001:206-211 (offscreen): indices become tabs, what does not resolve is
\* dropped, and so are the clusters left empty
RECURSIVE resolveTabs(_, _)
resolveTabs(tabs, indices) ==
    IF indices = <<>> THEN <<>>
    ELSE LET index == Head(indices)
             rest == resolveTabs(tabs, Tail(indices))
         IN IF index >= 0 /\ index < Len(tabs)
            THEN <<tabs[index + 1]>> \o rest
            ELSE rest

RECURSIVE toClusters(_, _)
toClusters(parsed, tabs) ==
    IF parsed = <<>> THEN <<>>
    ELSE LET cluster == [name |-> Head(parsed).name,
                         tabs |-> resolveTabs(tabs, Head(parsed).tabs),
                         theme |-> Head(parsed).theme]
             rest == toClusters(Tail(parsed), tabs)
         IN IF Len(cluster.tabs) > 0 THEN <<cluster>> \o rest ELSE rest

\* part_001:128-219 (offscreen): the collaborator's answer, parsed
categorizeTabs(tabs, parsed) == toClusters(parsed, tabs)

\* part_001:758-774: the clusters of a peer are stored and announced
handleAIClusterUpdate(W, clusterData) ==
    storeClusters(W, clusterData, "peer", 0, <<>>)

\* part_001:596-614; group_update and annotation_update touch nothing kept
\* here, and the other types have no case
handleWebSocketMessage(W, message) ==
    CASE message.type = "tab_shared" -> handleSharedTab(W, message.data)
      [] message.type = "ai_cluster_update" -> handleAIClusterUpdate(W, message.data)
      [] message.type = "group_data" -> handleGroupData(W, message.data)
      [] OTHER -> W

\* part_001:406, 495, 591: the delays of the worker, in ms
CONNECTION_COOLDOWN == 5000
ReconnectDelay == 3000
HeartbeatPeriod == 25000

setTimeout(W, f, delay, t) == [W EXCEPT !.timers = Append(@, [f |-> f, at |-> t + delay])]

\* mutant of initializeWebSocket: no cooldown
initializeWebSocket_eager(W, t) ==
    IF W.connectionAttemptInProgress
    THEN logLine(W, "Connection attempt already in progress")
    ELSE [W EXCEPT !.lastConnectionAttempt = t,
                   !.orphans = IF W.wsState = "CLOSED" THEN @ ELSE @ + 1,
                   !.wsState = "CONNECTING",
                   !.wsOut = <<>>,
                   !.created = @ + 1]

\* part_001:409-434, 536-539.  The body has no await: the flag is set and,
\* in the finally, reset within one call.  close() of the socket that is
\* replaced leaves its close event due unless it has closed already; the new
\* socket starts with nothing sent on it.
initializeWebSocket(W, t) ==
    IF W.connectionAttemptInProgress
    THEN logLine(W, "Connection attempt already in progress")
    ELSE IF t - W.lastConnectionAttempt < CONNECTION_COOLDOWN
    THEN logLine(W, "Connection attempt too soon")
    ELSE LET W1 == [W EXCEPT !.connectionAttemptInProgress = TRUE,
                             !.lastConnectionAttempt = t]
             W2 == [W1 EXCEPT !.orphans = IF W1.wsState = "CLOSED" THEN @ ELSE @ + 1]
             W3 == [W2 EXCEPT !.wsState = "CONNECTING",
                              !.wsOut = <<>>,
                              !.created = @ + 1]
         IN [W3 EXCEPT !.connectionAttemptInProgress = FALSE]

\* mutant of sendHeartbeat: the cycle goes on whatever the socket's state
sendHeartbeat_always(W, t) ==
    setTimeout([W EXCEPT !.wsOut = Append(@, [type |-> "heartbeat"])],
               "sendHeartbeat", HeartbeatPeriod, t)

\* part_001:587-593
sendHeartbeat(W, t) ==
    IF W.wsState = "OPEN"
    THEN setTimeout([W EXCEPT !.wsOut = Append(@, [type |-> "heartbeat"])],
                    "sendHeartbeat", HeartbeatPeriod, t)
    ELSE W

\* part_001:1356-1378
joinGroup(W, groupId, t) ==
    LET W1 == [W EXCEPT !.currentGroupId = groupId]
    IN IF W1.wsState = "OPEN"
       THEN [W1 EXCEPT !.wsOut = Append(@, [type |-> "join_group", groupId |-> groupId])]
       ELSE LET W2 == logLine(W1, "WebSocket not connected")
            IN IF W2.wsState = "CLOSED" THEN initializeWebSocket(W2, t) ELSE W2

\* part_001:477-496: onclose of a socket the worker has created
onClose(W, t) ==
    setTimeout(notice(W, [type |-> "connection_status_changed", connected |-> FALSE]),
               "initializeWebSocket", ReconnectDelay, t)

\* part_001:564-572: the UI asks for a connection
onInitializeWebsocket(W, t) ==
    IF W.wsState \in {"CLOSED", "CLOSING"}
    THEN initializeWebSocket(W, t)
    ELSE logLine(W, "WebSocket already connected")

\* the timer that is due first at time t, and the timers without it
Due(ts, t) == {i \in 1..Len(ts) : ts[i].at <= t}
FirstDue(ts, t) ==
    CHOOSE i \in Due(ts, t) :
       \A j \in Due(ts, t) : ts[i].at < ts[j].at \/ (ts[i].at = ts[j].at /\ i <= j)
Without(ts, i) == SubSeq(ts, 1, i - 1) \o SubSeq(ts, i + 1, Len(ts))

runTimer(W, timer, t) ==
    IF timer.f = "initializeWebSocket" THEN initializeWebSocket(W, t)
    ELSE sendHeartbeat(W, t)

\* one callback or continuation of the worker
runTask(W, task) ==
    CASE task.k = "hst_get" -> sharedTabRead(W, task.tabData, task.sharedTabs)
      [] task.k = "tabs_set" -> computeClusters(W, task.sharedTabs)
      [] task.k = "notify" -> notice(W, [type |-> "clusters_updated", data |-> task.data])
      [] task.k = "share_get" -> shareTabRead(W, task.sharedTab, task.sharedTabs)
      [] task.k = "share_set" -> shareTabSend(W, task.sharedTab)
      [] task.k = "fail_get" ->
             storeClusters(W, simpleGroupByDomain(task.sharedTabs), "fallback", 0,
                           task.sharedTabs)

(***************************************************************************)
(* Steps of the worker                                                     *)
(***************************************************************************)
\* the next storage callback runs
RunTask ==
    /\ tasks # <<>>
    /\ Head(tasks).k # "uac_get"
    /\ ApplyW(runTask([CurW EXCEPT !.tasks = Tail(tasks), !.ran = Head(tasks)],
                       Head(tasks)))
    /\ UNCHANGED <<wsIn, nEvents>>

\* part_001:1010-1045: updateAIClusters continues after its get
RunAIRequest ==
    /\ tasks # <<>>
    /\ Head(tasks).k = "uac_get"
    /\ \E offscreenCreated \in BOOLEAN :
          ApplyW(aiRequest([CurW EXCEPT !.tasks = Tail(tasks)],
                           Head(tasks).sharedTabs, offscreenCreated))
    /\ UNCHANGED <<wsIn, nEvents>>

\* part_001:301-313, 1047-1054: the offscreen document answers a request
\* with clusters; the same clusters follow in a tabs-categorized message
OnCategorized(r, parsed) ==
    /\ r \in inflight
    /\ LET clusters == categorizeTabs(r.tabs, parsed)
           W1 == [CurW EXCEPT !.inflight = @ \ {r},
                              !.late = @ \cup {[req |-> r.req, tabs |-> r.tabs,
                                                clusters |-> clusters]}]
       IN ApplyW(handleTabsCategorized(W1, [clusters |-> clusters, error |-> null],
                                       r.req, r.tabs))
    /\ UNCHANGED <<wsIn, nEvents>>

\* part_001:309-311, 1052-1058: the offscreen document answers with an error
OnCategorizeError(r) ==
    /\ r \in inflight
    /\ ApplyW(aiFailed([CurW EXCEPT !.inflight = @ \ {r}]))
    /\ UNCHANGED <<wsIn, nEvents>>

\* part_001:1152-1154: a tabs-categorized message arrives
OnTabsCategorizedMessage(m) ==
    /\ m \in late
    /\ ApplyW(handleTabsCategorized([CurW EXCEPT !.late = @ \ {m}],
                                    [clusters |-> m.clusters, error |-> null],
                                    m.req, m.tabs))
    /\ UNCHANGED <<wsIn, nEvents>>

\* part_001:462-475: an envelope of the relay arrives (not through wsIn)
OnWsMessage(message) ==
    /\ ApplyW(handleWebSocketMessage(CurW, message))
    /\ nEvents' = nEvents + 1
    /\ UNCHANGED wsIn

\* part_001:551-553, 1252-1268: the user shares the current tab
OnShareCurrentTab(url) ==
    /\ ApplyW(shareTab(CurW, url, now))
    /\ nEvents' = nEvents + 1
    /\ UNCHANGED wsIn

\* part_001:547-550: the user joins a group
OnJoinGroup(groupId) ==
    /\ ApplyW(joinGroup(CurW, groupId, now))
    /\ nEvents' = nEvents + 1
    /\ UNCHANGED wsIn

\* mutant of onOpen: the heartbeat goes out before the group is rejoined
onOpen_heartbeatFirst(W, t) ==
    LET W1 == notice(W, [type |-> "connection_status_changed", connected |-> TRUE])
        W2 == sendHeartbeat(W1, t)
    IN IF W2.currentGroupId # null THEN joinGroup(W2, W2.currentGroupId, t) ELSE W2

\* part_001:436-459: onopen of the socket announces the connection, rejoins
\* the current group and starts the heartbeats
onOpen(W, t) ==
    LET W1 == notice(W, [type |-> "connection_status_changed", connected |-> TRUE])
        W2 == IF W1.currentGroupId # null
              THEN joinGroup(W1, W1.currentGroupId, t)
              ELSE W1
    IN sendHeartbeat(W2, t)

OnWsOpen ==
    /\ wsState = "CONNECTING"
    /\ ApplyW(onOpen([CurW EXCEPT !.wsState = "OPEN"], now))
    /\ UNCHANGED <<wsIn, nEvents>>

\* the socket of the worker closes: the connection fails, or the relay or
\* the network ends it
OnWsClose ==
    /\ wsState # "CLOSED"
    /\ ApplyW(onClose([CurW EXCEPT !.wsState = "CLOSED"], now))
    /\ UNCHANGED <<wsIn, nEvents>>

\* the closing handshake of the socket of the worker starts
OnWsClosing ==
    /\ wsState = "OPEN"
    /\ ApplyW([CurW EXCEPT !.wsState = "CLOSING"])
    /\ UNCHANGED <<wsIn, nEvents>>

\* the close event of a socket the worker has replaced
OnOrphanClose ==
    /\ orphans > 0
    /\ ApplyW(onClose([CurW EXCEPT !.orphans = @ - 1], now))
    /\ UNCHANGED <<wsIn, nEvents>>

\* part_001:564-572: the UI sends initialize_websocket
OnInitializeWebsocket ==
    /\ ApplyW(onInitializeWebsocket(CurW, now))
    /\ UNCHANGED <<wsIn, nEvents>>

\* the setTimeout callback that is due first runs
OnTimer ==
    /\ Due(timers, now) # {}
    /\ LET i == FirstDue(timers, now)
       IN ApplyW(runTimer([CurW EXCEPT !.timers = Without(timers, i)], timers[i], now))
    /\ UNCHANGED <<wsIn, nEvents>>

\* part_001:462-475: onmessage of the socket, for the next envelope of wsIn
OnWsDelivery ==
    /\ wsState = "OPEN"
    /\ wsIn # <<>>
    /\ ApplyW(handleWebSocketMessage(CurW, Head(wsIn)))
    /\ wsIn' = Tail(wsIn)
    /\ UNCHANGED nEvents

InitWorker ==
    /\ store = [sharedTabs |-> <<>>, annotations |-> <<>>, aiClusters |-> <<>>]
    /\ tasks = <<>>
    /\ inflight = {}
    /\ late = {}
    /\ notices = <<>>
    /\ console = <<>>
    /\ currentGroupId = null
    /\ wsState = "CLOSED"
    /\ lastConnectionAttempt = 0 - CONNECTION_COOLDOWN
    /\ connectionAttemptInProgress = FALSE
    /\ timers = <<>>
    /\ orphans = 0
    /\ created = 0
    /\ wsIn = <<>>
    /\ wsOut = <<>>
    /\ published = [src |-> "installed", req |-> 0, tabs |-> <<>>]
    /\ reqSeq = 0
    /\ nEvents = 0
    /\ ran = NoTask

(***************************************************************************)
(* Spec: the registries, liveness and the cleanup timer                    *)
(***************************************************************************)
Init ==
    /\ clients = << >>
    /\ clientOrder = << >>
    /\ groups = << >>
    /\ readyState = [c \in ClientIds |-> "CLOSED"]
    /\ now = 0
    /\ sent = NoOut
    /\ errors = <<>>
    /\ InitWorker

Connect == (\E c \in ClientIds : OnConnection(c)) /\ UNCHANGED workerVars
Join == /\ \E c \in ClientIds, g \in GroupIds :
               OnMessage(c, [type |-> "join_group", groupId |-> g])
        /\ UNCHANGED workerVars
Leave == /\ \E c \in ClientIds, g \in GroupIds :
               OnMessage(c, [type |-> "leave_group", groupId |-> g])
         /\ UNCHANGED workerVars
Heartbeat == /\ \E c \in ClientIds : OnMessage(c, [type |-> "heartbeat"])
             /\ UNCHANGED workerVars
Closing == (\E c \in ClientIds : SocketClosing(c)) /\ UNCHANGED workerVars
Close == (\E c \in ClientIds : OnClose(c)) /\ UNCHANGED workerVars
Share == /\ TotalPushed < MaxShares
         /\ \E c \in ClientIds, d \in Payloads :
               OnMessage(c, [type |-> "share_tab", data |-> d])
         /\ UNCHANGED workerVars
Annotate == /\ TotalAnnotations < MaxAnnotations
            /\ \E c \in ClientIds :
                  OnMessage(c, [type |-> "annotation_created", data |-> "a1"])
            /\ UNCHANGED workerVars
ClusterUpdate == /\ \E c \in ClientIds :
                       OnMessage(c, [type |-> "ai_cluster_update", data |-> "k1"])
                 /\ UNCHANGED workerVars
Cleanup == OnCleanupTimer /\ UNCHANGED workerVars
Tick == Advance /\ sent' = NoOut /\ errors' = <<>>
        /\ UNCHANGED <<clients, clientOrder, groups, readyState>>
        /\ UNCHANGED workerVars

Next ==
    \/ Connect
    \/ Join
    \/ Leave
    \/ Heartbeat
    \/ Closing
    \/ Close
    \/ Cleanup
    \/ Tick

Spec == Init /\ [][Next]_vars

(***************************************************************************)
(* SpecShare: the group-scoped envelopes (the clock stands still)          *)
(***************************************************************************)
NextShare ==
    \/ Connect
    \/ Join
    \/ Leave
    \/ Share
    \/ Close

SpecShare == Init /\ [][NextShare]_vars

(***************************************************************************)
(* SpecRelay: the envelopes the relay passes on without the sender, over   *)
(* groups that hold a history and an annotation log                        *)
(***************************************************************************)
RelayShare ==
    /\ TotalPushed < MaxShares
    /\ OnMessage("c1", [type |-> "share_tab",
                        data |-> [url |-> "u1", groupId |-> "g1", timestamp |-> 0]])
    /\ UNCHANGED workerVars
RelayAnnotate ==
    /\ TotalAnnotations < MaxAnnotations
    /\ OnMessage("c1", [type |-> "annotation_created", data |-> "a1"])
    /\ UNCHANGED workerVars

NextRelay ==
    \/ Connect
    \/ Join
    \/ RelayShare
    \/ RelayAnnotate
    \/ ClusterUpdate
    \/ Closing

SpecRelay == Init /\ [][NextRelay]_vars

(***************************************************************************)
(* SpecEvicted: connections the cleanup timer has evicted keep their       *)
(* socket and go on sending envelopes of every type                        *)
(***************************************************************************)
EvictedJoin ==
    /\ \E c \in ClientIds : OnMessage(c, [type |-> "join_group", groupId |-> "g1"])
    /\ UNCHANGED workerVars
EvictedLeave ==
    /\ \E g \in GroupIds : OnMessage("c1", [type |-> "leave_group", groupId |-> g])
    /\ UNCHANGED workerVars
EvictedClusterUpdate ==
    /\ OnMessage("c1", [type |-> "ai_cluster_update", data |-> "k1"])
    /\ UNCHANGED workerVars

NextEvicted ==
    \/ Connect
    \/ EvictedJoin
    \/ EvictedLeave
    \/ RelayShare
    \/ RelayAnnotate
    \/ EvictedClusterUpdate
    \/ Cleanup
    \/ Tick

SpecEvicted == Init /\ [][NextEvicted]_vars

(***************************************************************************)
(* SpecFrames: frames that are not envelopes, among joins, shares and      *)
(* annotations, with the clock running                                     *)
(***************************************************************************)
Frame == (\E c \in ClientIds, data \in Frames : OnData(c, data)) /\ UNCHANGED workerVars

NextFrames ==
    \/ Connect
    \/ EvictedJoin
    \/ RelayShare
    \/ RelayAnnotate
    \/ Frame
    \/ Tick

SpecFrames == Init /\ [][NextFrames]_vars

(***************************************************************************)
(* SpecHistory: one connection shares more tabs than the history holds     *)
(***************************************************************************)
HistConnect == OnConnection("c1") /\ UNCHANGED workerVars
HistJoin == /\ OnMessage("c1", [type |-> "join_group", groupId |-> "g1"])
            /\ UNCHANGED workerVars
HistLeave == /\ OnMessage("c1", [type |-> "leave_group", groupId |-> "g1"])
             /\ UNCHANGED workerVars
HistShare ==
    /\ TotalPushed < MaxHistShares
    /\ OnMessage("c1", [type |-> "share_tab",
                        data |-> [url |-> "u1", groupId |-> "g1", timestamp |-> 0]])
    /\ UNCHANGED workerVars
HistClose == OnClose("c1") /\ UNCHANGED workerVars

NextHistory ==
    \/ HistConnect
    \/ HistJoin
    \/ HistLeave
    \/ HistShare
    \/ HistClose

SpecHistory == Init /\ [][NextHistory]_vars

(***************************************************************************)
(* SpecReconcile: the tab event reconciler of the worker.  The envelopes   *)
(* of the relay are inputs; the collaborator never answers.                *)
(***************************************************************************)
\* timestamps 1000 ms and 1001 ms apart
Stamps == {0, 1000, 2001}
EventTabs == [url : {"https://a.com/1", "https://b.org/1"}, groupId : GroupIds,
              timestamp : Stamps]
\* a history of the relay in which one URL was shared twice; the snapshots
\* are its prefixes
SharedTwice ==
    <<[url |-> "https://a.com/1", groupId |-> "g1", timestamp |-> 0],
      [url |-> "https://a.com/1", groupId |-> "g1", timestamp |-> 2001],
      [url |-> "https://b.org/1", groupId |-> "g2", timestamp |-> 2001],
      [url |-> "https://b.org/1", groupId |-> "g1", timestamp |-> 2001]>>
Prefixes(h, n) == {SubSeq(h, 1, k) : k \in 0..(IF n < Len(h) THEN n ELSE Len(h))}

RecTabShared ==
    /\ nEvents < MaxEvents
    /\ \E tabData \in EventTabs :
          OnWsMessage([type |-> "tab_shared", data |-> tabData])
    /\ UNCHANGED <<serverVars, now>>
RecGroupData ==
    /\ nEvents < MaxEvents
    /\ \E h \in Prefixes(SharedTwice, MaxSnapshotLen) :
          OnWsMessage([type |-> "group_data",
                       data |-> [sharedTabs |-> h, annotations |-> <<>>]])
    /\ UNCHANGED <<serverVars, now>>
WorkerTask == RunTask /\ UNCHANGED <<serverVars, now>>
WorkerAIRequest == RunAIRequest /\ UNCHANGED <<serverVars, now>>

NextReconcile ==
    \/ RecTabShared
    \/ RecGroupData
    \/ WorkerTask
    \/ WorkerAIRequest

SpecReconcile == Init /\ [][NextReconcile]_vars

(***************************************************************************)
(* SpecCluster: the cluster coordinator of the worker with the             *)
(* collaborator's answers                                                  *)
(***************************************************************************)
\* the history of the group grows: the snapshots are the prefixes of one list
GrowingHistory ==
    <<[url |-> "https://a.com/1", groupId |-> "g1", timestamp |-> 0],
      [url |-> "https://b.org/1", groupId |-> "g1", timestamp |-> 1000],
      [url |-> "nourl", groupId |-> "g1", timestamp |-> 2001],
      [url |-> "https://a.com/2", groupId |-> "g1", timestamp |-> 2001]>>
\* the answers of the collaborator that parse, for a request of n tabs: no
\* cluster; every index; the last index left out; an index out of range; two
\* clusters that share the indices; two clusters that both name index 0
Indices(a, b) == [i \in 1..(b - a + 1) |-> a + i - 1]
Cluster(name, indices) == [name |-> name, tabs |-> indices, theme |-> "t"]
Answers(n) ==
    {<<>>,
     <<Cluster("A", Indices(0, n - 1))>>,
     <<Cluster("A", Indices(0, n - 2))>>,
     <<Cluster("A", Indices(0, n))>>,
     <<Cluster("A", <<0>>), Cluster("B", Indices(1, n - 1))>>,
     <<Cluster("A", <<0>>), Cluster("B", Indices(0, n - 1))>>}

CluGroupData ==
    /\ nEvents < MaxClusterEvents
    /\ \E h \in Prefixes(GrowingHistory, MaxSnapshotLen) :
          OnWsMessage([type |-> "group_data",
                       data |-> [sharedTabs |-> h, annotations |-> <<>>]])
    /\ UNCHANGED <<serverVars, now>>
CluCategorized ==
    /\ \E r \in inflight : \E parsed \in Answers(Len(r.tabs)) : OnCategorized(r, parsed)
    /\ UNCHANGED <<serverVars, now>>
CluCategorizeError ==
    /\ \E r \in inflight : OnCategorizeError(r)
    /\ UNCHANGED <<serverVars, now>>
CluTabsCategorizedMessage ==
    /\ \E m \in late : OnTabsCategorizedMessage(m)
    /\ UNCHANGED <<serverVars, now>>

NextCluster ==
    \/ CluGroupData
    \/ WorkerTask
    \/ WorkerAIRequest
    \/ CluCategorized
    \/ CluCategorizeError
    \/ CluTabsCategorizedMessage

SpecCluster == Init /\ [][NextCluster]_vars

(***************************************************************************)
(* SpecFailure: classification requests that fail, among snapshots of the  *)
(* relay and shares of the user                                            *)
(***************************************************************************)
MaxFailEvents == 3

FailJoin ==
    /\ nEvents < MaxFailEvents
    /\ currentGroupId = null
    /\ OnJoinGroup("g1")
    /\ UNCHANGED <<serverVars, now>>
FailGroupData ==
    /\ nEvents < MaxFailEvents
    /\ \E h \in Prefixes(GrowingHistory, MaxSnapshotLen) :
          OnWsMessage([type |-> "group_data",
                       data |-> [sharedTabs |-> h, annotations |-> <<>>]])
    /\ UNCHANGED <<serverVars, now>>
FailShare ==
    /\ nEvents < MaxFailEvents
    /\ OnShareCurrentTab("https://a.com/2")
    /\ UNCHANGED <<serverVars, now>>

NextFailure ==
    \/ FailJoin
    \/ FailGroupData
    \/ FailShare
    \/ WorkerTask
    \/ WorkerAIRequest
    \/ CluCategorizeError

SpecFailure == Init /\ [][NextFailure]_vars

(***************************************************************************)
(* SpecPartition: the grouping by host of every tab list of up to MaxTabs  *)
(* tabs                                                                    *)
(***************************************************************************)
MaxTabs == 3
PartTabs == {[url |-> u, groupId |-> "g1", timestamp |-> 0] : u \in Urls}
TabLists == UNION {[1..n -> PartTabs] : n \in 0..MaxTabs}

InitPartition ==
    /\ clients = << >>
    /\ clientOrder = << >>
    /\ groups = << >>
    /\ readyState = [c \in ClientIds |-> "CLOSED"]
    /\ now = 0
    /\ sent = NoOut
    /\ errors = <<>>
    /\ store \in [sharedTabs : TabLists, annotations : {<<>>}, aiClusters : {<<>>}]
    /\ tasks = <<>>
    /\ inflight = {}
    /\ late = {}
    /\ notices = <<>>
    /\ console = <<>>
    /\ currentGroupId = null
    /\ wsState = "CLOSED"
    /\ lastConnectionAttempt = 0 - CONNECTION_COOLDOWN
    /\ connectionAttemptInProgress = FALSE
    /\ timers = <<>>
    /\ orphans = 0
    /\ created = 0
    /\ wsIn = <<>>
    /\ wsOut = <<>>
    /\ published = [src |-> "installed", req |-> 0, tabs |-> <<>>]
    /\ reqSeq = 0
    /\ nEvents = 0
    /\ ran = NoTask

\* part_001:794 with the caller's set of aiClusters: the stored list is
\* grouped by host
PartitionTabs ==
    /\ published.src = "installed"
    /\ ApplyW(storeClusters(CurW, simpleGroupByDomain(store.sharedTabs), "fallback", 0,
                            store.sharedTabs))
    /\ UNCHANGED <<wsIn, nEvents>>
    /\ UNCHANGED <<serverVars, now>>

NextPartition ==
    \/ PartitionTabs
    \/ WorkerTask

SpecPartition == InitPartition /\ [][NextPartition]_vars

(***************************************************************************)
(* SpecE2E: the worker is connection c1 of the relay; what it sends is     *)
(* handled by the relay and what the relay sends to c1 is delivered to it  *)
(***************************************************************************)
\* part_001:564-572: the UI has the worker connect.  In this specification
\* the connection is made before the clock advances.
E2EConnect ==
    /\ now = 0
    /\ wsState = "CLOSED"
    /\ OnInitializeWebsocket
    /\ UNCHANGED <<serverVars, now>>
\* server.js:19-58: the relay accepts the socket of the worker and sends the
\* welcome
E2EAccept ==
    /\ now = 0
    /\ wsState = "CONNECTING"
    /\ OnConnection("c1")
    /\ wsIn' = wsIn \o sent'["c1"]
    /\ UNCHANGED <<store, tasks, inflight, late, notices, console, currentGroupId,
                   wsState, connVars, wsOut, published, reqSeq, nEvents, ran>>
E2EOpen ==
    /\ now = 0
    /\ readyState["c1"] = "OPEN"
    /\ OnWsOpen
    /\ UNCHANGED <<serverVars, now>>
E2EJoin ==
    /\ nEvents < MaxE2EEvents
    /\ wsState = "CLOSED" => now = 0
    /\ \E g \in GroupIds : OnJoinGroup(g)
    /\ UNCHANGED <<serverVars, now>>
E2EShare ==
    /\ nEvents < MaxE2EEvents
    /\ OnShareCurrentTab("https://a.com/1")
    /\ UNCHANGED <<serverVars, now>>
\* server.js:29-37: the relay handles the next envelope of the worker
E2ERelay ==
    /\ wsOut # <<>>
    /\ OnMessage("c1", Head(wsOut))
    /\ wsOut' = Tail(wsOut)
    /\ wsIn' = wsIn \o sent'["c1"]
    /\ UNCHANGED <<store, tasks, inflight, late, notices, console, currentGroupId,
                   wsState, connVars, published, reqSeq, nEvents, ran>>
E2EDeliver == OnWsDelivery /\ UNCHANGED <<serverVars, now>>

NextE2E ==
    \/ E2EConnect
    \/ E2EAccept
    \/ E2EOpen
    \/ E2EJoin
    \/ E2EShare
    \/ E2ERelay
    \/ E2EDeliver
    \/ WorkerTask
    \/ WorkerAIRequest
    \/ Tick

SpecE2E == Init /\ [][NextE2E]_vars

(***************************************************************************)
(* SpecConn: the connection of the worker.  The clock advances in steps of *)
(* ConnStep ms, and a timer that is due runs before the clock moves on.    *)
(***************************************************************************)
ConnStep == ReconnectDelay \div 3
MaxConnTicks == 10
\* the sockets the worker creates before the environment lets its socket be
MaxAttempts == 3

ConnInitialize ==
    /\ created < MaxAttempts
    /\ OnInitializeWebsocket
    /\ UNCHANGED <<serverVars, now>>
ConnJoin ==
    /\ currentGroupId = null
    /\ OnJoinGroup("g1")
    /\ UNCHANGED <<serverVars, now>>
ConnOpen == OnWsOpen /\ UNCHANGED <<serverVars, now>>
ConnClose ==
    /\ created < MaxAttempts
    /\ OnWsClose
    /\ UNCHANGED <<serverVars, now>>
ConnClosing == OnWsClosing /\ UNCHANGED <<serverVars, now>>
ConnOrphanClose == OnOrphanClose /\ UNCHANGED <<serverVars, now>>
ConnTimer == OnTimer /\ UNCHANGED <<serverVars, now>>
ConnTick ==
    /\ Due(timers, now) = {}
    /\ now < MaxConnTicks * ConnStep
    /\ now' = now + ConnStep
    /\ UNCHANGED <<serverVars, workerVars>>

NextConn ==
    \/ ConnInitialize
    \/ ConnJoin
    \/ ConnOpen
    \/ ConnClosing
    \/ ConnClose
    \/ ConnOrphanClose
    \/ ConnTimer
    \/ ConnTick

SpecConn == Init /\ [][NextConn]_vars

(***************************************************************************)
(* SpecConnLive: the connection of the worker with timers that run when    *)
(* they are due and a clock that keeps advancing.  The UI may ask for a    *)
(* connection, but nothing makes it do so.  A socket closes only while the *)
(* reconnect delay still fits within the time the model covers.            *)
(***************************************************************************)
LiveClose ==
    /\ now + ReconnectDelay <= MaxConnTicks * ConnStep
    /\ ConnClose

NextConnLive ==
    \/ ConnInitialize
    \/ ConnOpen
    \/ LiveClose
    \/ ConnTimer
    \/ ConnTick

SpecConnLive ==
    /\ Init
    /\ [][NextConnLive]_vars
    /\ WF_vars(ConnTimer)
    /\ WF_vars(ConnTick)

(***************************************************************************)
(* SpecHeartbeat: the connection of the worker over several heartbeat      *)
(* periods; the clock advances in steps of HbStep ms                       *)
(***************************************************************************)
HbStep == CONNECTION_COOLDOWN
MaxHbTicks == 6

HbTick ==
    /\ Due(timers, now) = {}
    /\ now < MaxHbTicks * HbStep
    /\ now' = now + HbStep
    /\ UNCHANGED <<serverVars, workerVars>>

NextHeartbeat ==
    \/ ConnInitialize
    \/ ConnOpen
    \/ ConnClosing
    \/ ConnClose
    \/ ConnTimer
    \/ HbTick

SpecHeartbeat == Init /\ [][NextHeartbeat]_vars

(***************************************************************************)
(* SpecBeat: the sweeper and a connection, c1, whose client sends a        *)
(* heartbeat every HeartbeatPeriod ms while its socket is open: the clock  *)
(* advances by one period, and not while a heartbeat of c1 is due.  The    *)
(* other connection sends nothing.                                         *)
(***************************************************************************)
MaxBeatTicks == 14

BeatHeartbeat == OnMessage("c1", [type |-> "heartbeat"]) /\ UNCHANGED workerVars
BeatTick ==
    /\ now < MaxBeatTicks * HeartbeatPeriod
    /\ ("c1" \in DOMAIN clients /\ readyState["c1"] = "OPEN")
          => now - clients["c1"].lastSeen < HeartbeatPeriod
    /\ now' = now + HeartbeatPeriod
    /\ sent' = NoOut
    /\ errors' = <<>>
    /\ UNCHANGED <<clients, clientOrder, groups, readyState>>
    /\ UNCHANGED workerVars

NextBeat ==
    \/ Connect
    \/ EvictedJoin
    \/ BeatHeartbeat
    \/ Closing
    \/ Cleanup
    \/ BeatTick

SpecBeat == Init /\ [][NextBeat]_vars

(***************************************************************************)
(* Claims about the relay                                                  *)
(***************************************************************************)
Contains(s, x) == \E i \in 1..Len(s) : s[i] = x
IndexOf(s, x) == CHOOSE i \in 1..Len(s) : s[i] = x

\* C1 (registry symmetry): connection c is in the member set of group g
\* exactly when g is in the group set of c; in particular every member is a
\* registered connection and every joined group exists.
C1_RegistrySymmetry ==
    \A c \in ClientIds, g \in GroupIds :
        (g \in DOMAIN groups /\ c \in groups[g].members)
          <=> (c \in DOMAIN clients /\ g \in SeqToSet(clients[c].groups))

\* a connection was evicted by the cleanup timer (its socket is still open
\* and its record is gone) while another connection is still in a group
C1_Witness ==
    \E c \in ClientIds, d \in DOMAIN clients, g \in DOMAIN groups :
        /\ readyState[c] = "OPEN"
        /\ c \notin DOMAIN clients
        /\ d \in groups[g].members

\* C2 (history bound): a group to which n records were pushed holds the last
\* min(n, 100) of them, in the order of their arrival.
C2_HistoryBound ==
    \A g \in DOMAIN groups :
        LET h == groups[g].sharedTabs
            n == groups[g].pushed
        IN /\ Len(h) <= HistoryCap
           /\ Len(h) = (IF n > HistoryCap THEN HistoryCap ELSE n)
           /\ \A i \in 1..Len(h) : h[i].arrival = n - Len(h) + (i - 1)

\* more than 100 records were shared into one group
C2_Witness ==
    \E g \in DOMAIN groups :
        /\ groups[g].pushed > HistoryCap + 1
        /\ Len(groups[g].sharedTabs) = HistoryCap

\* C3 (grace window), as claimed: a group that holds shared tabs and is
\* younger than the grace window is not removed by any step (the leave or
\* disconnect of its last member included) and keeps the records it holds.
C3_GraceWindow ==
    [][\A g \in DOMAIN groups :
          (groups[g].sharedTabs # <<>> /\ now - groups[g].created <= GroupGrace)
            => /\ g \in DOMAIN groups'
               /\ \A i \in 1..Len(groups[g].sharedTabs) :
                      Contains(groups'[g].sharedTabs, groups[g].sharedTabs[i])]_vars

\* C4 (liveness eviction): a run of the cleanup timer removes every
\* connection c silent for more than the timeout from the registry and from
\* every group, and every open connection that is a member of a group of c
\* when c is removed is sent member_left with the number of members left.
Stale(c) == c \in DOMAIN clients /\ now - clients[c].lastSeen > Timeout
EvictedUpTo(c) ==
    {d \in DOMAIN clients :
        Stale(d) /\ IndexOf(clientOrder, d) <= IndexOf(clientOrder, c)}
C4_LivenessEviction ==
    [][Cleanup =>
          \A c \in DOMAIN clients :
              Stale(c) =>
                /\ c \notin DOMAIN clients'
                /\ ~Contains(clientOrder', c)
                /\ \A g \in DOMAIN groups' : c \notin groups'[g].members
                /\ \A g \in SeqToSet(clients[c].groups) :
                     \A m \in groups[g].members \ EvictedUpTo(c) :
                        readyState[m] = "OPEN" =>
                          Contains(sent'[m],
                              [type |-> "member_left", clientId |-> c,
                               memberCount |->
                                  Cardinality(groups[g].members \ EvictedUpTo(c))])]_vars

\* the cleanup timer has evicted c (socket still open, record purged) and a
\* remaining member m was told
C4_Witness ==
    \E c \in ClientIds, m \in DOMAIN clients :
        /\ readyState[c] = "OPEN"
        /\ c \notin DOMAIN clients
        /\ \E i \in 1..Len(sent[m]) :
              /\ sent[m][i].type = "member_left"
              /\ sent[m][i].clientId = c
              /\ sent[m][i].memberCount = 1

Last(s) == s[Len(s)]
Open(c) == readyState[c] = "OPEN"

\* C12: shareTab fan-out.  A share_tab of a registered connection appends
\* one record to the history of every group of the sender and sends that
\* record in a tab_shared and the new history in a group_data to every
\* member of the group whose socket is open, the sender included; a
\* connection is sent two envelopes for each of these groups it is in.
C12_ShareFanOut ==
    [][\A c \in ClientIds, d \in Payloads :
          (c \in DOMAIN clients /\ OnMessage(c, [type |-> "share_tab", data |-> d]))
             => /\ \A m \in ClientIds :
                      Len(sent'[m]) =
                         IF Open(m)
                         THEN 2 * Cardinality({g \in SeqToSet(clients[c].groups) :
                                                  m \in groups[g].members})
                         ELSE 0
                /\ \A g \in SeqToSet(clients[c].groups) :
                   /\ g \in DOMAIN groups'
                   /\ groups'[g].pushed = groups[g].pushed + 1
                   /\ Len(groups[g].sharedTabs) < HistoryCap
                         => groups'[g].sharedTabs =
                               Append(groups[g].sharedTabs, Last(groups'[g].sharedTabs))
                   /\ Last(groups'[g].sharedTabs).url = d.url
                   /\ Last(groups'[g].sharedTabs).sharedBy = c
                   /\ Last(groups'[g].sharedTabs).timestamp = now
                   /\ \A m \in groups[g].members :
                         Open(m) =>
                            /\ Contains(sent'[m],
                                  [type |-> "tab_shared",
                                   data |-> Last(groups'[g].sharedTabs)])
                            /\ Contains(sent'[m],
                                  [type |-> "group_data",
                                   data |-> [sharedTabs |-> groups'[g].sharedTabs,
                                             annotations |-> groups'[g].annotations]])]_vars

\* a share has reached the sender and the other member of a group, and a
\* second group of the sender as well
C12_Witness ==
    /\ \E r \in SeqToSet(sent["c1"]) :
          r.type = "tab_shared" /\ r.data.sharedBy = "c1"
    /\ \E r \in SeqToSet(sent["c2"]) :
          r.type = "tab_shared" /\ r.data.sharedBy = "c1"
    /\ Len(sent["c1"]) = 4

JoinOf(c, g) == OnMessage(c, [type |-> "join_group", groupId |-> g])

\* C13: join reply.  A join_group of a registered connection creates the
\* group if it is absent, makes the connection a member, and sends the
\* joiner exactly a group_joined whose count includes the joiner, followed
\* by a group_data with the whole history and annotation log of the group.
C13_JoinReply ==
    [][\A c \in ClientIds, g \in GroupIds :
          (c \in DOMAIN clients /\ JoinOf(c, g))
             => /\ g \in DOMAIN groups'
                /\ groups'[g].members =
                      (IF g \in DOMAIN groups THEN groups[g].members ELSE {}) \cup {c}
                /\ groups'[g].sharedTabs =
                      (IF g \in DOMAIN groups THEN groups[g].sharedTabs ELSE <<>>)
                /\ groups'[g].annotations =
                      (IF g \in DOMAIN groups THEN groups[g].annotations ELSE <<>>)
                /\ sent'[c] =
                      <<[type |-> "group_joined", groupId |-> g,
                         memberCount |-> Cardinality(groups'[g].members)],
                        [type |-> "group_data",
                         data |-> [sharedTabs |-> groups'[g].sharedTabs,
                                   annotations |-> groups'[g].annotations]]>>]_vars

\* a connection has joined a group that had a member, a history and an
\* annotation log
C13_Witness ==
    \E c \in ClientIds :
       /\ Len(sent[c]) = 2
       /\ sent[c][1].type = "group_joined"
       /\ sent[c][1].memberCount = 2
       /\ sent[c][2].type = "group_data"
       /\ sent[c][2].data.sharedTabs # <<>>
       /\ sent[c][2].data.annotations # <<>>

\* the groups of c that m is a member of
Shared(c, m) == {g \in SeqToSet(clients[c].groups) : m \in groups[g].members}
\* m is sent n copies of the envelope e and nothing else
SentOnly(m, e, n) ==
    /\ Len(sent'[m]) = n
    /\ \A i \in 1..Len(sent'[m]) : sent'[m][i] = e

\* C14: sender exclusion.  The member_joined of a join, the
\* annotation_update of an annotation and the ai_cluster_update of a
\* cluster update go to every other member of the group whose socket is
\* open (once for each group concerned) and never to their originator.
C14_SenderExclusion ==
    [][\A c \in ClientIds :
          c \in DOMAIN clients =>
             /\ \A g \in GroupIds :
                   JoinOf(c, g) =>
                      /\ \A i \in 1..Len(sent'[c]) : sent'[c][i].type # "member_joined"
                      /\ \A m \in ClientIds \ {c} :
                            SentOnly(m, [type |-> "member_joined", clientId |-> c,
                                         memberCount |-> Cardinality(groups'[g].members)],
                                     IF m \in groups'[g].members /\ Open(m) THEN 1 ELSE 0)
             /\ OnMessage(c, [type |-> "annotation_created", data |-> "a1"]) =>
                   /\ sent'[c] = <<>>
                   /\ \A m \in ClientIds \ {c} :
                         SentOnly(m, [type |-> "annotation_update", data |-> "a1",
                                      createdBy |-> c],
                                  IF Open(m) THEN Cardinality(Shared(c, m)) ELSE 0)
             /\ OnMessage(c, [type |-> "ai_cluster_update", data |-> "k1"]) =>
                   /\ sent'[c] = <<>>
                   /\ \A m \in ClientIds \ {c} :
                         SentOnly(m, [type |-> "ai_cluster_update", data |-> "k1",
                                      updatedBy |-> c],
                                  IF Open(m) THEN Cardinality(Shared(c, m)) ELSE 0)]_vars

\* a cluster update of a connection in two groups has reached the other
\* member of both, and not its sender
C14_Witness ==
    \E c \in ClientIds, m \in ClientIds :
       /\ c # m
       /\ sent[c] = <<>>
       /\ Len(sent[m]) = 2
       /\ \A i \in 1..2 : sent[m][i].type = "ai_cluster_update" /\ sent[m][i].updatedBy = c

LeaveOf(c, g) == OnMessage(c, [type |-> "leave_group", groupId |-> g])
\* every envelope of the given type sent in this step carries the count n
Counts(type, n) ==
    \A m \in ClientIds : \A i \in 1..Len(sent'[m]) :
       sent'[m][i].type = type => sent'[m][i].memberCount = n

\* C15: member-count accuracy.  The memberCount of the group_joined and
\* member_joined of a join and of the member_left of a leave is the size of
\* the member set of the group after that join or leave, and after a leave
\* every remaining member whose socket is open is sent exactly one
\* member_left.
C15_MemberCountAccuracy ==
    [][\A c \in ClientIds, g \in GroupIds :
          c \in DOMAIN clients =>
             /\ JoinOf(c, g) =>
                   /\ Counts("group_joined", Cardinality(groups'[g].members))
                   /\ Counts("member_joined", Cardinality(groups'[g].members))
                   /\ groups'[g].members =
                         (IF g \in DOMAIN groups THEN groups[g].members ELSE {}) \cup {c}
             /\ (g \in DOMAIN groups /\ LeaveOf(c, g)) =>
                   /\ g \in DOMAIN groups' => groups'[g].members = groups[g].members \ {c}
                   /\ \A m \in ClientIds :
                         sent'[m] =
                            IF m \in groups[g].members \ {c} /\ Open(m)
                            THEN <<[type |-> "member_left", clientId |-> c,
                                    memberCount |-> Cardinality(groups[g].members \ {c})]>>
                            ELSE <<>>]_vars

\* a connection that stays registered has left a group, and the member that
\* remains has been told that it is alone
C15_Witness ==
    \E c \in DOMAIN clients, m \in ClientIds, g \in DOMAIN groups :
       /\ g \notin SeqToSet(clients[c].groups)
       /\ groups[g].members = {m}
       /\ sent[m] = <<[type |-> "member_left", clientId |-> c, memberCount |-> 1]>>

\* C16: disconnect.  After the close event of the socket of c, c is a
\* member of no group and has no record in the registry, and every group c
\* was in has been left: c is out of its member set, its other members are
\* unchanged, and those with an open socket have been sent member_left.
C16_Disconnect ==
    [][\A c \in ClientIds :
          OnClose(c) =>
             /\ c \notin DOMAIN clients'
             /\ \A g \in DOMAIN groups' : c \notin groups'[g].members
             /\ c \in DOMAIN clients =>
                   \A g \in SeqToSet(clients[c].groups) :
                      /\ g \in DOMAIN groups' =>
                            groups'[g].members = groups[g].members \ {c}
                      /\ \A m \in groups[g].members \ {c} :
                            Open(m) =>
                               Contains(sent'[m],
                                   [type |-> "member_left", clientId |-> c,
                                    memberCount |->
                                        Cardinality(groups[g].members \ {c})])]_vars

\* the socket of a connection has closed and the member that remains in its
\* group has been told
C16_Witness ==
    \E c \in ClientIds, m \in DOMAIN clients, g \in DOMAIN groups :
       /\ readyState[c] = "CLOSED"
       /\ c \notin DOMAIN clients
       /\ groups[g].members = {m}
       /\ Contains(sent[m], [type |-> "member_left", clientId |-> c, memberCount |-> 1])

\* C17: heartbeat.  A heartbeat of a registered connection refreshes its
\* liveness timestamp and is answered with one pong; no group changes, no
\* other record of the registry changes and no other connection is sent
\* anything.
C17_Heartbeat ==
    [][\A c \in ClientIds :
          (c \in DOMAIN clients /\ OnMessage(c, [type |-> "heartbeat"]))
             => /\ clients' = [clients EXCEPT ![c].lastSeen = now]
                /\ sent' = [NoOut EXCEPT ![c] = <<[type |-> "pong"]>>]
                /\ groups' = groups
                /\ clientOrder' = clientOrder]_vars

\* a member of a group has refreshed a liveness timestamp that was old
C17_Witness ==
    \E c \in DOMAIN clients :
       /\ sent[c] = <<[type |-> "pong"]>>
       /\ clients[c].lastSeen = now
       /\ now > Timeout
       /\ clients[c].groups # <<>>

\* C18: a cluster update is relay-only.  An ai_cluster_update of a
\* registered connection leaves every group (member set, history,
\* annotation log) and the registry as they are, but for the liveness
\* timestamp of the sender.
C18_ClusterUpdateRelayOnly ==
    [][\A c \in ClientIds :
          (c \in DOMAIN clients /\ OnMessage(c, [type |-> "ai_cluster_update",
                                                 data |-> "k1"]))
             => /\ groups' = groups
                /\ clients' = [clients EXCEPT ![c].lastSeen = now]
                /\ clientOrder' = clientOrder]_vars

\* a cluster update has been relayed in a group that holds a history and
\* an annotation log
C18_Witness ==
    \E m \in ClientIds, g \in DOMAIN groups :
       /\ m \in groups[g].members
       /\ groups[g].sharedTabs # <<>>
       /\ groups[g].annotations # <<>>
       /\ sent[m] # <<>>
       /\ \A i \in 1..Len(sent[m]) : sent[m][i].type = "ai_cluster_update"

\* C19: join idempotence.  A join_group of a connection that is already a
\* member of the group leaves the member set, the history and the
\* annotation log of the group and the group set of the connection as the
\* first join left them.
C19_JoinIdempotence ==
    [][\A c \in ClientIds, g \in GroupIds :
          (/\ c \in DOMAIN clients
           /\ g \in DOMAIN groups
           /\ c \in groups[g].members
           /\ JoinOf(c, g))
             => /\ groups' = groups
                /\ clients'[c].groups = clients[c].groups
                /\ clientOrder' = clientOrder]_vars

\* a connection that shared a tab in a group has joined the group again
C19_Witness ==
    \E c \in DOMAIN clients, g \in DOMAIN groups :
       /\ \E i \in 1..Len(groups[g].sharedTabs) : groups[g].sharedTabs[i].sharedBy = c
       /\ Len(sent[c]) = 2
       /\ sent[c][1] = [type |-> "group_joined", groupId |-> g,
                        memberCount |-> Cardinality(groups[g].members)]
       /\ sent[c][2].data.sharedTabs = groups[g].sharedTabs

\* the envelopes of handleMessage
Envelopes ==
    {[type |-> "heartbeat"]}
       \cup {[type |-> "join_group", groupId |-> g] : g \in GroupIds}
       \cup {[type |-> "leave_group", groupId |-> g] : g \in GroupIds}
       \cup {[type |-> "share_tab", data |-> d] : d \in Payloads}
       \cup {[type |-> "annotation_created", data |-> "a1"],
             [type |-> "ai_cluster_update", data |-> "k1"]}
NoOp == clients' = clients /\ clientOrder' = clientOrder /\ groups' = groups
\* an envelope of a connection that has no record is handled
UnknownSender(c, e) == c \notin DOMAIN clients /\ OnMessage(c, e)
\* a leave_group of a registered connection names a group that does not exist
UnknownGroup(c, g) ==
    c \in DOMAIN clients /\ g \notin DOMAIN groups /\ LeaveOf(c, g)

\* C20 as stated: unknown ids are no-ops.  An envelope of a connection that
\* is absent from the registry, and a leave_group that names a group absent
\* from the group registry, change nothing in the registries and send
\* nothing.
C20_UnknownIdsNoOp ==
    [][/\ \A c \in ClientIds, e \in Envelopes :
             UnknownSender(c, e) => (NoOp /\ sent' = NoOut)
       /\ \A c \in ClientIds, g \in GroupIds :
             UnknownGroup(c, g) => (NoOp /\ sent' = NoOut)]_vars

\* C20 amended: the same, except that the leave_group of a registered
\* connection refreshes the liveness timestamp of that connection, as every
\* envelope of a registered connection does.
C20_UnknownIdsNoOpButLiveness ==
    [][/\ \A c \in ClientIds, e \in Envelopes :
             UnknownSender(c, e) => (NoOp /\ sent' = NoOut)
       /\ \A c \in ClientIds, g \in GroupIds :
             UnknownGroup(c, g) =>
                /\ clients' = [clients EXCEPT ![c].lastSeen = now]
                /\ clientOrder' = clientOrder
                /\ groups' = groups
                /\ sent' = NoOut]_vars

\* a connection has been evicted with its socket open, next to a member of
\* a group that holds a history, and nothing is being sent
C20_Witness ==
    \E c \in ClientIds, m \in DOMAIN clients, g \in DOMAIN groups :
       /\ Open(c)
       /\ c \notin DOMAIN clients
       /\ m \in groups[g].members
       /\ Open(m)
       /\ groups[g].sharedTabs # <<>>
       /\ sent = NoOut

\* the envelopes that are passed on to a group, and the type they are
\* passed on with
Broadcasts ==
    {[type |-> "share_tab", data |-> [url |-> "u1", groupId |-> "g1", timestamp |-> 0]],
     [type |-> "annotation_created", data |-> "a1"],
     [type |-> "ai_cluster_update", data |-> "k1"]}
RelayedType(e) ==
    CASE e.type = "share_tab" -> "tab_shared"
      [] e.type = "annotation_created" -> "annotation_update"
      [] OTHER -> e.type

\* C21: best-effort broadcast.  When a group that is broadcast to has a
\* member whose socket is not open, every targeted member whose socket is
\* open is still sent the envelope, the member that is skipped is sent
\* nothing, and the member sets and the registry stay as they are.
C21_BestEffortBroadcast ==
    [][\A c \in ClientIds, e \in Broadcasts :
          (c \in DOMAIN clients /\ OnMessage(c, e))
             => \A g \in SeqToSet(clients[c].groups) :
                   (\E x \in groups[g].members : ~Open(x))
                      => /\ \A m \in groups[g].members :
                               (Open(m) /\ (e.type = "share_tab" \/ m # c))
                                  => \E i \in 1..Len(sent'[m]) :
                                        sent'[m][i].type = RelayedType(e)
                         /\ \A x \in groups[g].members : ~Open(x) => sent'[x] = <<>>
                         /\ groups'[g].members = groups[g].members
                         /\ DOMAIN clients' = DOMAIN clients
                         /\ \A m \in DOMAIN clients :
                               clients'[m].groups = clients[m].groups]_vars

\* a share in a group with a member whose socket is closing has reached the
\* sender and not that member
C21_Witness ==
    \E g \in DOMAIN groups, x \in ClientIds :
       /\ groups[g].members = {"c1", x}
       /\ x # "c1"
       /\ ~Open(x)
       /\ Open("c1")
       /\ sent[x] = <<>>
       /\ \E i \in 1..Len(sent["c1"]) : sent["c1"][i].type = "tab_shared"

\* C22: malformed envelopes are skipped.  A frame that does not parse, is
\* not an object or has an unrecognised type leaves every group (member set,
\* history, annotation log), the set of registered connections, their group
\* sets and every socket as they are and sends nothing, so that the
\* envelopes that follow are handled as if the frame had not arrived.
C22_MalformedSkipped ==
    [][\A c \in ClientIds, data \in Frames :
          OnData(c, data)
             => /\ groups' = groups
                /\ sent' = NoOut
                /\ clientOrder' = clientOrder
                /\ DOMAIN clients' = DOMAIN clients
                /\ \A m \in DOMAIN clients : clients'[m].groups = clients[m].groups
                /\ readyState' = readyState]_vars

\* a frame has been logged as invalid while a group holds members, a
\* history and an annotation log
C22_Witness ==
    /\ errors = <<"Invalid message format">>
    /\ \E g \in DOMAIN groups :
          /\ groups[g].members = ClientIds
          /\ groups[g].sharedTabs # <<>>
          /\ groups[g].annotations # <<>>

(***************************************************************************)
(* Claims about the cluster coordinator                                    *)
(***************************************************************************)
\* a step of the worker that handles an answer of the collaborator
AnswerStep == CluCategorized \/ CluTabsCategorizedMessage

\* C5: stale-response suppression.  Once the result of a classification
\* request has been published, the answer to an earlier request for another
\* tab set never replaces it, whichever way the answer is delivered.
C5_StaleResponseSuppression ==
    [][(/\ AnswerStep
        /\ published.src = "ai"
        /\ published'.src = "ai"
        /\ published'.tabs # published.tabs)
          => published'.req >= published.req]_vars

RECURSIVE Occurrences(_, _)
Occurrences(s, x) ==
    IF s = <<>> THEN 0
    ELSE (IF Head(s) = x THEN 1 ELSE 0) + Occurrences(Tail(s), x)

RECURSIVE References(_, _)
References(clusters, tab) ==
    IF clusters = <<>> THEN 0
    ELSE Occurrences(Head(clusters).tabs, tab) + References(Tail(clusters), tab)

\* C23: fallback partition.  The grouping by host of a tab list holds every
\* tab of the list in exactly one cluster and no other tab, has exactly one
\* cluster for each host of a URL of the list, named after the host, and no
\* cluster for anything else but "Other", holds every tab whose URL does not
\* parse in the cluster "Other", has no empty cluster, and for a list of one
\* tab is one cluster of that tab.
C23_FallbackPartition ==
    published.src = "fallback"
       => LET tabs == published.tabs
              cl == store.aiClusters
              In(k, tab) == \E j \in 1..Len(cl[k].tabs) : cl[k].tabs[j] = tab
          IN /\ \A i \in 1..Len(tabs) :
                   References(cl, tabs[i]) = Occurrences(tabs, tabs[i])
             /\ \A k \in 1..Len(cl) : \A j \in 1..Len(cl[k].tabs) :
                   \E i \in 1..Len(tabs) : tabs[i] = cl[k].tabs[j]
             /\ \A i \in 1..Len(tabs) :
                   hostname(tabs[i].url) # "throws"
                      => /\ Cardinality({k \in 1..Len(cl) :
                                           cl[k].name = hostname(tabs[i].url)}) = 1
                         /\ \E k \in 1..Len(cl) :
                               cl[k].name = hostname(tabs[i].url) /\ In(k, tabs[i])
             /\ \A k \in 1..Len(cl) :
                   \/ cl[k].name = "Other"
                   \/ \E i \in 1..Len(tabs) : hostname(tabs[i].url) = cl[k].name
             /\ \A i \in 1..Len(tabs) :
                   hostname(tabs[i].url) = "throws"
                      => \E k \in 1..Len(cl) : cl[k].name = "Other" /\ In(k, tabs[i])
             /\ \A k \in 1..Len(cl) : cl[k].tabs # <<>>
             /\ Len(tabs) = 1 => (Len(cl) = 1 /\ cl[1].tabs = tabs)

\* C24: classification failure keeps the fallback.  When the handling of a
\* failed classification request has stored its clusters and no storage
\* callback that reads or writes the tab list or the clusters is pending,
\* the published clusters are the grouping by host of the stored tab list.
C24_FailureKeepsFallback ==
    (/\ ran.k = "fail_get"
     /\ \A i \in 1..Len(tasks) : tasks[i].k \in {"notify", "share_set"})
       => /\ published.src = "fallback"
          /\ store.aiClusters = simpleGroupByDomain(store.sharedTabs)

\* C25: fallback first on every change.  Once the storage callbacks of a
\* change of the stored tab list (a snapshot, an accepted tab_shared, a share
\* of the user) have run, and while no classification has answered, the
\* published clusters are the grouping by host of the stored list.
C25_FallbackFirst ==
    tasks = <<>>
       => \/ published.src = "installed" /\ store.sharedTabs = <<>>
          \/ /\ published.src = "fallback"
             /\ published.tabs = store.sharedTabs
             /\ store.aiClusters = simpleGroupByDomain(store.sharedTabs)

\* C6: cluster completeness.  The partition published from an answer of the
\* collaborator for a non-empty tab set references every tab of the set
\* exactly once.
C6_ClusterCompleteness ==
    (published.src = "ai" /\ published.tabs # <<>>)
       => \A i \in 1..Len(published.tabs) :
             References(store.aiClusters, published.tabs[i]) = 1

(***************************************************************************)
(* Claims about the tab event reconciler                                   *)
(***************************************************************************)
SameTab(tab, tabData) == tab.url = tabData.url /\ tab.groupId = tabData.groupId
Near(tab, tabData) ==
    /\ tab.timestamp - tabData.timestamp <= 1000
    /\ tabData.timestamp - tab.timestamp <= 1000
HoldsNear(held, tabData) ==
    \E i \in 1..Len(held) : SameTab(held[i], tabData) /\ Near(held[i], tabData)
HoldsFar(held, tabData) ==
    \E i \in 1..Len(held) : SameTab(held[i], tabData) /\ ~Near(held[i], tabData)
Warned(ns) == \E i \in 1..Len(ns) : ns[i].type = "duplicate_tab_warning"

\* the step in which the worker decides about a tab_shared event: the
\* callback of the get of handleSharedTab, with the list the get has read
Deciding == WorkerTask /\ Head(tasks).k = "hst_get"
Decided == ran.k = "hst_get"

\* C7 as stated: echo suppression.  When the incoming record matches a held
\* record in URL and group and their timestamps are 1000 ms or less apart,
\* the local collection is left unchanged and no duplicate notice is emitted.
C7_EchoSuppression ==
    [][(Deciding /\ HoldsNear(Head(tasks).sharedTabs, Head(tasks).tabData))
          => (store'.sharedTabs = store.sharedTabs /\ ~Warned(notices'))]_vars

\* C7 amended: echo suppression holds when, besides the near record, no held
\* record of the same URL and group is more than 1000 ms away from the
\* incoming one.
C7_EchoSuppressionNoFarRecord ==
    [][(/\ Deciding
        /\ HoldsNear(Head(tasks).sharedTabs, Head(tasks).tabData)
        /\ ~HoldsFar(Head(tasks).sharedTabs, Head(tasks).tabData))
          => (store'.sharedTabs = store.sharedTabs /\ ~Warned(notices'))]_vars

\* an echo has been suppressed: the record matched a held one within the
\* window, nothing was added and nothing was announced
C7_Witness ==
    /\ Decided
    /\ HoldsNear(ran.sharedTabs, ran.tabData)
    /\ ~HoldsFar(ran.sharedTabs, ran.tabData)
    /\ \E i \in 1..Len(ran.sharedTabs) :
          /\ SameTab(ran.sharedTabs[i], ran.tabData)
          /\ ran.sharedTabs[i].timestamp # ran.tabData.timestamp
    /\ store.sharedTabs = ran.sharedTabs
    /\ console = <<"Ignoring echo from server">>
    /\ notices = <<>>

\* C8: duplicate rejection.  When the incoming record matches a held record
\* in URL and group and their timestamps are more than 1000 ms apart, the
\* record is not added, the held records stay as they are, and a
\* duplicate_tab_warning notice is emitted.
C8_DuplicateRejection ==
    [][(Deciding /\ HoldsFar(Head(tasks).sharedTabs, Head(tasks).tabData))
          => (store'.sharedTabs = store.sharedTabs /\ Warned(notices'))]_vars

\* a duplicate has been rejected, of a record shared earlier and of one
\* shared later
C8_Witness ==
    /\ Decided
    /\ HoldsFar(ran.sharedTabs, ran.tabData)
    /\ store.sharedTabs = ran.sharedTabs
    /\ Warned(notices)

\* C10: new-record append.  When no held record has the URL and the group of
\* the incoming record, the record is appended once: the collection is the
\* list read with the new record last.
C10_NewRecordAppend ==
    [][(/\ Deciding
        /\ ~\E i \in 1..Len(Head(tasks).sharedTabs) :
               SameTab(Head(tasks).sharedTabs[i], Head(tasks).tabData))
          => store'.sharedTabs = Append(Head(tasks).sharedTabs, Head(tasks).tabData)]_vars

\* the snapshots whose set has been issued and whose callback has not run
\* yet, as positions of tasks
PendingSnapshots ==
    {i \in 1..Len(tasks) : tasks[i].k = "tabs_set" /\ tasks[i].snapshot}
LatestSnapshot ==
    tasks[CHOOSE i \in PendingSnapshots : \A j \in PendingSnapshots : j <= i].sharedTabs

\* C11: snapshot authority.  A read-modify-write of the tab list that was
\* started before a snapshot was stored (its get is answered while the set
\* of the snapshot is still to be acknowledged) never overwrites the
\* snapshot: after its callback the list is still the latest snapshot.
C11_SnapshotAuthority ==
    [][(/\ WorkerTask
        /\ Head(tasks).k \in {"hst_get", "share_get"}
        /\ PendingSnapshots # {})
          => store'.sharedTabs = LatestSnapshot]_vars

(***************************************************************************)
(* Claims about the worker and the relay together                          *)
(***************************************************************************)
\* nothing is under way between the worker, its storage and the relay, and
\* (in C9) the collection of the worker is the history of its group
Settled == tasks = <<>> /\ wsIn = <<>> /\ wsOut = <<>>

\* C9: end-to-end re-share.  Sharing a URL again in the same group more
\* than 1000 ms after its first share adds no record: once the shares have
\* gone through the worker and the relay, the reconciled collection holds no
\* two records of one URL and one group that are more than 1000 ms apart.
C9_EndToEndReshare ==
    (/\ Settled
     /\ currentGroupId \in DOMAIN groups
     /\ store.sharedTabs = groups[currentGroupId].sharedTabs) =>
       \A i, j \in 1..Len(store.sharedTabs) :
          SameTab(store.sharedTabs[i], store.sharedTabs[j])
             => Near(store.sharedTabs[i], store.sharedTabs[j])

(***************************************************************************)
(* Claims about the connection of the worker                               *)
(***************************************************************************)
JoinEnvelope(g) == [type |-> "join_group", groupId |-> g]
HeartbeatEnvelope == [type |-> "heartbeat"]
Pending(f) == {i \in 1..Len(timers) : timers[i].f = f}

\* C26: rejoin on reconnect.  When the socket of the worker opens while a
\* current group is set, a join_group for that group is sent on the socket,
\* and it is sent before any heartbeat.
C26_RejoinOnReconnect ==
    [][(wsState = "CONNECTING" /\ wsState' = "OPEN" /\ currentGroupId # null)
          => \E i \in 1..Len(wsOut') :
                /\ wsOut'[i] = JoinEnvelope(currentGroupId)
                /\ \A j \in 1..Len(wsOut') : wsOut'[j] = HeartbeatEnvelope => i < j]_vars

\* the second socket of the worker has opened and the group was rejoined on it
C26_Witness ==
    /\ created = 2
    /\ wsState = "OPEN"
    /\ currentGroupId = "g1"
    /\ wsOut = <<JoinEnvelope("g1"), HeartbeatEnvelope>>

\* C27: reconnect liveness.  Whenever a socket the worker has created is
\* closed, the worker eventually creates a new socket (the socket is
\* connecting again), whatever the time of the close and without the UI
\* having to ask.
C27_ReconnectLiveness ==
    (created > 0 /\ wsState = "CLOSED") ~> (wsState = "CONNECTING")

\* C28: reconnect cooldown.  A socket is created only CONNECTION_COOLDOWN ms
\* or more after the attempt before it, which is the time
\* lastConnectionAttempt holds; within the cooldown no step creates a socket
\* or closes one.
C28_ReconnectCooldown ==
    [][/\ created' # created
          => /\ created' = created + 1
             /\ now - lastConnectionAttempt >= CONNECTION_COOLDOWN
             /\ lastConnectionAttempt' = now
       /\ now - lastConnectionAttempt < CONNECTION_COOLDOWN
          => /\ created' = created
             /\ orphans' <= orphans
             /\ lastConnectionAttempt' = lastConnectionAttempt]_vars

\* a call of initializeWebSocket has been suppressed by the cooldown after
\* two sockets were created
C28_Witness ==
    /\ created = 2
    /\ Contains(console, "Connection attempt too soon")

\* C29: in-flight suppression.  While the socket of the worker is connecting
\* no step creates another socket or closes the one that is connecting.
C29_InFlightSuppression ==
    [][wsState = "CONNECTING" => (created' = created /\ orphans' <= orphans)]_vars

\* C30: heartbeat only while open.  A heartbeat is put on the socket only in
\* a step in which the socket is open, and a heartbeat timer that finds the
\* socket not open sends nothing and sets no timer.
C30_HeartbeatOnlyWhileOpen ==
    [][/\ (Len(wsOut') > Len(wsOut) /\ Last(wsOut') = HeartbeatEnvelope)
          => wsState' = "OPEN"
       /\ (/\ OnTimer
           /\ timers[FirstDue(timers, now)].f = "sendHeartbeat"
           /\ wsState # "OPEN")
          => /\ wsOut' = wsOut
             /\ timers' = Without(timers, FirstDue(timers, now))
             /\ wsState' = wsState]_vars

\* the heartbeat timer of a socket that had opened has run since the socket
\* closed: no heartbeat timer is left
C30_Witness ==
    /\ created = 1
    /\ wsState = "CLOSED"
    /\ Contains(wsOut, HeartbeatEnvelope)
    /\ Pending("sendHeartbeat") = {}
    /\ now >= HeartbeatPeriod

(***************************************************************************)
(* SpecIsolation: two connections join and leave two groups while c1       *)
(* shares, annotates and both relay clusters (the clock stands still)      *)
(***************************************************************************)
NextIsolation ==
    \/ Connect
    \/ Join
    \/ Leave
    \/ RelayShare
    \/ RelayAnnotate
    \/ ClusterUpdate

SpecIsolation == Init /\ [][NextIsolation]_vars

(***************************************************************************)
(* SpecSwitch: the worker, connection c1 of the relay, joins one group and *)
(* then another and shares (the clock stands still)                        *)
(***************************************************************************)
NextSwitch ==
    \/ E2EConnect
    \/ E2EAccept
    \/ E2EOpen
    \/ E2EJoin
    \/ E2EShare
    \/ E2ERelay
    \/ E2EDeliver
    \/ WorkerTask

SpecSwitch == Init /\ [][NextSwitch]_vars

(***************************************************************************)
(* Claims about the system as a whole                                      *)
(***************************************************************************)
\* C31: timing order keeps live clients.  At every run of the sweeper a
\* registered connection with an open socket whose client sends a heartbeat
\* every 25 s has a liveness timestamp less than the timeout old, and the
\* sweeper leaves it registered and in its groups.
C31_LiveClientsKept ==
    [][(OnCleanupTimer /\ "c1" \in DOMAIN clients /\ readyState["c1"] = "OPEN")
          => /\ now - clients["c1"].lastSeen < Timeout
             /\ "c1" \in DOMAIN clients'
             /\ clients'["c1"] = clients["c1"]
             /\ \A g \in DOMAIN groups :
                   "c1" \in groups[g].members
                      => (g \in DOMAIN groups' /\ "c1" \in groups'[g].members)]_vars

\* past the timeout the sweeper has evicted the silent connection, whose
\* socket is still open, and the connection that sends heartbeats is still
\* a registered member of the group
C31_Witness ==
    /\ now > Timeout
    /\ "c1" \in DOMAIN clients
    /\ readyState["c1"] = "OPEN"
    /\ clients["c1"].lastSeen > Timeout
    /\ "g1" \in DOMAIN groups
    /\ groups["g1"].members = {"c1"}
    /\ "c2" \notin DOMAIN clients
    /\ readyState["c2"] = "OPEN"

\* C32: group stamping.  Every record of the history of a group carries the
\* id of that group as its group identifier.
C32_GroupStamping ==
    \A g \in DOMAIN groups :
       \A i \in 1..Len(groups[g].sharedTabs) : groups[g].sharedTabs[i].groupId = g

\* the times a record carries: the values of its fields that hold a time
TimeFields == {"timestamp", "clientTimestamp", "serverTimestamp", "sharedAt"}
TimeValues(rec) == {rec[f] : f \in DOMAIN rec \cap TimeFields}

\* C33: both timestamps retained.  The record the relay stores for a
\* share_tab carries the timestamp the client wrote and the time of the
\* relay, and the records that were in the history stay as they were.
C33_BothTimestamps ==
    [][(wsOut # <<>> /\ Head(wsOut).type = "share_tab" /\ E2ERelay
           /\ "c1" \in DOMAIN clients)
          => \A g \in SeqToSet(clients["c1"].groups) \cap DOMAIN groups :
                LET old == groups[g].sharedTabs
                    new == groups'[g].sharedTabs
                IN /\ Len(new) = Len(old) + 1
                   /\ SubSeq(new, 1, Len(old)) = old
                   /\ {Head(wsOut).data.timestamp, now} \subseteq TimeValues(Last(new))]_vars

OfOwnGroup(d, e) ==
    CASE e.type = "tab_shared" ->
           \E g \in DOMAIN groups' :
              /\ {d, e.data.sharedBy} \subseteq groups'[g].members
              /\ groups'[g].sharedTabs # <<>>
              /\ e.data = Last(groups'[g].sharedTabs)
      [] e.type = "group_data" ->
           \E g \in DOMAIN groups' :
              /\ d \in groups'[g].members
              /\ e = groupDataEnvelope(groups'[g])
      [] e.type = "annotation_update" ->
           \E g \in DOMAIN groups' :
              /\ {d, e.createdBy} \subseteq groups'[g].members
              /\ \E i \in 1..Len(groups'[g].annotations) :
                    /\ groups'[g].annotations[i].data = e.data
                    /\ groups'[g].annotations[i].createdBy = e.createdBy
      [] e.type = "ai_cluster_update" ->
           \E g \in DOMAIN groups' : {d, e.updatedBy} \subseteq groups'[g].members
      [] e.type = "member_joined" ->
           \E g \in DOMAIN groups' : {d, e.clientId} \subseteq groups'[g].members
      [] e.type = "member_left" ->
           \E g \in DOMAIN groups :
              /\ d \in groups[g].members \ {e.clientId}
              /\ e.memberCount = Cardinality(groups[g].members \ {e.clientId})
      [] OTHER -> TRUE

\* C35: broadcast isolation.  Every group-scoped envelope a connection is
\* sent in a step (tab_shared, group_data, annotation_update,
\* ai_cluster_update, member_joined, member_left) is that of a group the
\* connection is a member of: a connection outside the group gets none.
C35_BroadcastIsolation ==
    [][\A d \in ClientIds : \A i \in 1..Len(sent'[d]) :
          OfOwnGroup(d, sent'[d][i])]_vars
\* c1, a member of g1 only, has shared; c2, open and a member of g2 only, was
\* sent nothing
C35_Witness ==
    /\ "g1" \in DOMAIN groups /\ "g2" \in DOMAIN groups
    /\ groups["g1"].members = {"c1"}
    /\ groups["g2"].members = {"c2"}
    /\ readyState["c2"] = "OPEN"
    /\ \E i \in 1..Len(sent["c1"]) : sent["c1"][i].type = "tab_shared"
    /\ sent["c2"] = <<>>

\* the groups c1 is a member of
JoinedByC1 == {g \in DOMAIN groups : "c1" \in groups[g].members}
\* the number of envelopes of type ty in the sequence q
RECURSIVE CountType(_, _)
CountType(q, ty) ==
    IF q = <<>> THEN 0
    ELSE (IF Head(q).type = ty THEN 1 ELSE 0) + CountType(Tail(q), ty)

\* C36: membership accumulates across joins.  The worker never sends
\* leave_group; when the relay handles its join_group the worker stays a
\* member of every group it was in and becomes one of the named group; when
\* the relay handles its share_tab the record is appended to the history of
\* every group it has joined and it is sent one tab_shared per such group.
C36_MembershipAccumulates ==
    [][/\ \A i \in 1..Len(wsOut') : wsOut'[i].type # "leave_group"
       /\ (wsOut # <<>> /\ E2ERelay /\ "c1" \in DOMAIN clients)
             => LET e == Head(wsOut)
                IN /\ e.type = "join_group"
                        => /\ \A g \in JoinedByC1 :
                                 g \in DOMAIN groups' /\ "c1" \in groups'[g].members
                           /\ e.groupId \in DOMAIN groups'
                           /\ "c1" \in groups'[e.groupId].members
                   /\ e.type = "share_tab"
                        => /\ \A g \in JoinedByC1 :
                                 /\ Len(groups'[g].sharedTabs) = Len(groups[g].sharedTabs) + 1
                                 /\ Last(groups'[g].sharedTabs).url = e.data.url
                                 /\ Last(groups'[g].sharedTabs).sharedBy = "c1"
                           /\ readyState["c1"] = "OPEN"
                                 => CountType(sent'["c1"], "tab_shared")
                                       = Cardinality(JoinedByC1)]_vars
\* the worker has joined g1 and then g2 and its share is in both histories
C36_Witness ==
    /\ JoinedByC1 = {"g1", "g2"}
    /\ clients["c1"].groups = <<"g1", "g2">>
    /\ currentGroupId = "g2"
    /\ \A g \in JoinedByC1 :
          /\ groups[g].sharedTabs # <<>>
          /\ Last(groups[g].sharedTabs).sharedBy = "c1"
    /\ CountType(sent["c1"], "tab_shared") = 2

\* C37: per-group event order.  When a share_tab is handled, each open
\* member of each group of the sender is sent the tab_shared of the record
\* that now ends the group's history, directly followed by a group_data
\* whose history ends with that record; the record was pushed after every
\* record the history held, so the tab_shared events of successive shares
\* come in the order of the history.
C37_EventOrder ==
    [][\A c \in ClientIds, d \in Payloads :
          (c \in DOMAIN clients /\ OnMessage(c, [type |-> "share_tab", data |-> d]))
             => \A g \in SeqToSet(clients[c].groups) \cap DOMAIN groups :
                   LET rec == Last(groups'[g].sharedTabs)
                   IN /\ \A k \in 1..Len(groups[g].sharedTabs) :
                            /\ groups'[g].sharedTabs[k] = groups[g].sharedTabs[k]
                            /\ groups[g].sharedTabs[k].arrival < rec.arrival
                      /\ \A m \in groups[g].members :
                            Open(m) =>
                               \E i \in 1..(Len(sent'[m]) - 1) :
                                  /\ sent'[m][i] = [type |-> "tab_shared", data |-> rec]
                                  /\ sent'[m][i + 1].type = "group_data"
                                  /\ sent'[m][i + 1].data.sharedTabs = groups'[g].sharedTabs]_vars
\* the second share into g1, whose members c1 and c2 are both sent the event
\* and then the snapshot of the two records
C37_Witness ==
    /\ "g1" \in DOMAIN groups
    /\ groups["g1"].members = {"c1", "c2"}
    /\ Len(groups["g1"].sharedTabs) = 2
    /\ \A m \in {"c1", "c2"} :
          /\ Len(sent[m]) = 2
          /\ sent[m][1] = [type |-> "tab_shared", data |-> groups["g1"].sharedTabs[2]]
          /\ sent[m][2] = groupDataEnvelope(groups["g1"])

\* C38: single heartbeat cycle.  The worker has at most one heartbeat timer
\* pending.
C38_SingleHeartbeatCycle ==
    Cardinality(Pending("sendHeartbeat")) <= 1

\* C39: leave by a non-member.  When a registered connection that is not a
\* member of an existing group sends leave_group for it, the group's member
\* set stays as it was and no member_left is sent to anybody.
C39_LeaveByNonMember ==
    [][\A c \in ClientIds, g \in GroupIds :
          (/\ c \in DOMAIN clients
           /\ g \in DOMAIN groups
           /\ c \notin groups[g].members
           /\ OnMessage(c, [type |-> "leave_group", groupId |-> g]))
             => /\ g \in DOMAIN groups'
                /\ groups'[g].members = groups[g].members
                /\ \A m \in ClientIds : CountType(sent'[m], "member_left") = 0]_vars

\* C40: no teardown of a healthy transport.  No step replaces the socket of
\* the worker (closing it and creating another) while that socket is open.
C40_NoTeardownOfOpen ==
    [][wsState = "OPEN" => created' = created]_vars

====
